---- MODULE Spec2Model ----
(***************************************************************************)
(* A model of the launchpad parser pipeline:                               *)
(*   - geyser/queue.rs    TransactionQueue (bounded FIFO behind one Mutex) *)
(*   - geyser/client.rs   GeyserClient (reconnecting stream loop, filter)  *)
(*   - parser/manager.rs  ParserManager (dispatch to the decoders)         *)
(*   - parser/pumpfun.rs, parser/meteora.rs  the two instruction decoders  *)
(*   - rabbitmq/consumer.rs  RabbitMQConsumer (the consume loop)           *)
(* Every queue operation is modelled statement by statement between the    *)
(* acquisition of the Mutex guard and its drop at the end of the function, *)
(* so that atomicity is a consequence of the lock and not of the model.    *)
(***************************************************************************)
EXTENDS Integers, Sequences, FiniteSets, TLC

\* ------------------------------------------------------------------ bounds
\* Largest capacity a queue is constructed with (capacities 0..MaxCapacity).
MaxCapacity == 3
\* Number of push calls the producer of the queue specification makes.
MaxPushes == 4
\* Largest max_count handed to pop_batch in the queue specification.
MaxBatch == 5

\* ------------------------------------------------------------------- tasks
Producer == "producer"
Consumers == {"consumer1", "consumer2"}
Tasks == {Producer} \cup Consumers
NoTask == "none"
NoMsg == [kind |-> "no_message"]

VARIABLES
    queue,      \* TransactionQueue.queue: the VecDeque behind the Mutex
    max_size,   \* TransactionQueue.max_size
    lock,       \* the task holding the MutexGuard, or NoTask
    pc,         \* pc[t]: the statement task t is at
    local,      \* local[t]: the locals of the queue operation t is in
    pushed,     \* number of push calls made so far (items are numbered by it)
    delivered,  \* every item returned to a consumer, as <<consumer, item>>, in return order
    evicted,    \* every item push removed from the front, in removal order
    config,     \* Config.transactions: the configured transaction filters
    tls,        \* geyser_config.grpc_endpoint starts with "https://"
    msg,        \* the stream message process_message is working on, or NoMsg
    received,   \* number of messages the stream has yielded so far
    iter_result,\* what the last run_stream_loop call returned: "none" while it runs
    failed_at,  \* the step whose failure made run_stream_loop return Err
    last_pause, \* seconds of the sleep taken since run_stream_loop last returned
    subscribed, \* the subscription request was sent on the current connection
    tx,         \* the transaction process_transaction was called with
    mgr,        \* the locals of process_transaction
    obs,        \* what process_transaction has done so far (decoder calls, launches, publishes)
    disp,       \* start_processing: the rest of the batch, and what was pulled and processed
    parsed,     \* what a decoder's parse_transaction returned for tx
    rmq,        \* the consume loop: the deliveries to come, the current one, the calls made
    reg,        \* ParserManager: what each decoder declares, and program_id_to_parser
    amqp        \* the RabbitMQ clients: stored connection and channel, init and publish calls

qvars_but_pc == <<queue, max_size, lock, local, pushed, delivered, evicted>>
cvars == <<config, tls, msg, received, iter_result, failed_at, last_pause, subscribed>>
mvars == <<tx, mgr, obs, disp>>
ovars == <<parsed, rmq, reg, amqp>>
vars == <<queue, max_size, lock, pc, local, pushed, delivered, evicted,
          config, tls, msg, received, iter_result, failed_at, last_pause, subscribed,
          tx, mgr, obs, disp, parsed, rmq, reg, amqp>>

\* ------------------------------------------------------------- pure helpers
Min(a, b) == IF a <= b THEN a ELSE b

\* The last n elements of s (all of s when it has fewer).
LastN(s, n) == SubSeq(s, Len(s) - Min(n, Len(s)) + 1, Len(s))

\* The set of elements of a sequence.
Range(s) == {s[i] : i \in 1..Len(s)}

\* VecDeque::pop_front: the front element as an Option (a sequence of at most
\* one element) and the remaining deque; None leaves the deque unchanged.
pop_front(q) ==
    IF q = <<>> THEN [item |-> <<>>, rest |-> q]
    ELSE [item |-> <<Head(q)>>, rest |-> Tail(q)]

\* VecDeque::pop_back, the removal push does not use.
pop_back(q) ==
    IF q = <<>> THEN [item |-> <<>>, rest |-> q]
    ELSE [item |-> <<q[Len(q)]>>, rest |-> SubSeq(q, 1, Len(q) - 1)]

\* The locals of a task that is in no queue operation.
NoLocals == [op |-> "none", item |-> <<>>, max_count |-> 0, i |-> 0,
             batch |-> <<>>, snap |-> <<>>]

\* ------------------------------------------------------- TransactionQueue
\* A lock that lets a task in while another holds the guard.
LockIgnoringHolder(t) == TRUE
\* self.queue.lock().await returns once no other task holds the guard.
CanLock(t) == lock = NoTask

\* A loop test that evicts only once the capacity is exceeded.
PushLoopCondStrict(q, cap) == Len(q) > cap
\* push, line 46: while queue.len() >= self.max_size
PushLoopCond(q, cap) == Len(q) >= cap

\* An eviction that removes the newest item instead of the oldest.
PushEvictNewest(q) == pop_back(q)
\* push, line 47: queue.pop_front()
PushEvict(q) == pop_front(q)

\* A loop over the inclusive range 0..=max_count.
PopBatchRangeInclusive(i, max_count) == i <= max_count
\* pop_batch, line 84: for _ in 0..max_count
PopBatchInRange(i, max_count) == i < max_count

\* A caller enters push(transaction): it now waits for the lock (line 43).
CallPush(t) ==
    /\ t = Producer
    /\ pc[t] = "idle"
    /\ pushed < MaxPushes
    /\ pushed' = pushed + 1
    /\ local' = [local EXCEPT ![t] = [NoLocals EXCEPT !.op = "push", !.item = <<pushed + 1>>]]
    /\ pc' = [pc EXCEPT ![t] = "lock"]
    /\ UNCHANGED <<queue, max_size, lock, delivered, evicted>>
    /\ UNCHANGED <<cvars, mvars, ovars>>

\* A caller enters pop() (line 56).
CallPop(t) ==
    /\ t \in Consumers
    /\ pc[t] = "idle"
    /\ local' = [local EXCEPT ![t] = [NoLocals EXCEPT !.op = "pop"]]
    /\ pc' = [pc EXCEPT ![t] = "lock"]
    /\ UNCHANGED <<queue, max_size, lock, pushed, delivered, evicted>>
    /\ UNCHANGED <<cvars, mvars, ovars>>

\* A caller enters drain_all() (line 74).
CallDrainAll(t) ==
    /\ t \in Consumers
    /\ pc[t] = "idle"
    /\ local' = [local EXCEPT ![t] = [NoLocals EXCEPT !.op = "drain_all"]]
    /\ pc' = [pc EXCEPT ![t] = "lock"]
    /\ UNCHANGED <<queue, max_size, lock, pushed, delivered, evicted>>
    /\ UNCHANGED <<cvars, mvars, ovars>>

\* A caller enters pop_batch(max_count) (line 80).
CallPopBatch(t, n) ==
    /\ t \in Consumers
    /\ pc[t] = "idle"
    /\ local' = [local EXCEPT ![t] = [NoLocals EXCEPT !.op = "pop_batch", !.max_count = n]]
    /\ pc' = [pc EXCEPT ![t] = "lock"]
    /\ UNCHANGED <<queue, max_size, lock, pushed, delivered, evicted>>
    /\ UNCHANGED <<cvars, mvars, ovars>>

\* The first statement of each operation after the guard is taken.
FirstStatement(op) ==
    CASE op = "push" -> "push_loop"
      [] op = "pop" -> "pop_front"
      [] op = "drain_all" -> "drain"
      [] op = "pop_batch" -> "pop_batch_loop"

\* let mut queue = self.queue.lock().await (lines 43, 57, 75, 81).
Acquire(t) ==
    /\ pc[t] = "lock"
    /\ CanLock(t)
    /\ lock' = t
    /\ local' = [local EXCEPT ![t].snap = queue]
    /\ pc' = [pc EXCEPT ![t] = FirstStatement(local[t].op)]
    /\ UNCHANGED <<queue, max_size, pushed, delivered, evicted>>
    /\ UNCHANGED <<cvars, mvars, ovars>>

\* push, line 46: the test of the while loop.
PushLoopTest(t) ==
    /\ pc[t] = "push_loop"
    /\ pc' = [pc EXCEPT ![t] = IF PushLoopCond(queue, max_size) THEN "push_evict" ELSE "push_back"]
    /\ UNCHANGED <<queue, max_size, lock, local, pushed, delivered, evicted>>
    /\ UNCHANGED <<cvars, mvars, ovars>>

\* push, lines 47-49: if let Some(_removed) = queue.pop_front() { warn!(..) }
PushEvictStep(t) ==
    /\ pc[t] = "push_evict"
    /\ queue' = PushEvict(queue).rest
    /\ evicted' = evicted \o PushEvict(queue).item
    /\ pc' = [pc EXCEPT ![t] = "push_loop"]
    /\ UNCHANGED <<max_size, lock, local, pushed, delivered>>
    /\ UNCHANGED <<cvars, mvars, ovars>>

\* push, line 52: queue.push_back(transaction).
PushBack(t) ==
    /\ pc[t] = "push_back"
    /\ queue' = queue \o local[t].item
    /\ pc' = [pc EXCEPT ![t] = "ret"]
    /\ UNCHANGED <<max_size, lock, local, pushed, delivered, evicted>>
    /\ UNCHANGED <<cvars, mvars, ovars>>

\* pop, line 58: queue.pop_front().
PopFront(t) ==
    /\ pc[t] = "pop_front"
    /\ queue' = pop_front(queue).rest
    /\ local' = [local EXCEPT ![t].batch = pop_front(queue).item]
    /\ pc' = [pc EXCEPT ![t] = "ret"]
    /\ UNCHANGED <<max_size, lock, pushed, delivered, evicted>>
    /\ UNCHANGED <<cvars, mvars, ovars>>

\* drain_all, line 76: queue.drain(..).collect().
Drain(t) ==
    /\ pc[t] = "drain"
    /\ queue' = <<>>
    /\ local' = [local EXCEPT ![t].batch = queue]
    /\ pc' = [pc EXCEPT ![t] = "ret"]
    /\ UNCHANGED <<max_size, lock, pushed, delivered, evicted>>
    /\ UNCHANGED <<cvars, mvars, ovars>>

\* pop_batch, lines 84-90: one iteration of the for loop, or its exit.
PopBatchIter(t) ==
    /\ pc[t] = "pop_batch_loop"
    /\ IF PopBatchInRange(local[t].i, local[t].max_count) /\ pop_front(queue).item # <<>>
       THEN /\ queue' = pop_front(queue).rest
            /\ local' = [local EXCEPT ![t].batch = @ \o pop_front(queue).item,
                                      ![t].i = @ + 1]
            /\ pc' = pc
       ELSE /\ pc' = [pc EXCEPT ![t] = "ret"]
            /\ UNCHANGED <<queue, local>>
    /\ UNCHANGED <<max_size, lock, pushed, delivered, evicted>>
    /\ UNCHANGED <<cvars, mvars, ovars>>

\* The function returns: the guard is dropped and the result handed to the caller.
Return(t) ==
    /\ pc[t] = "ret"
    /\ lock' = NoTask
    /\ delivered' = delivered \o [k \in 1..Len(local[t].batch) |-> <<t, local[t].batch[k]>>]
    /\ local' = [local EXCEPT ![t] = NoLocals]
    /\ pc' = [pc EXCEPT ![t] = "idle"]
    /\ UNCHANGED <<queue, max_size, pushed, evicted>>
    /\ UNCHANGED <<cvars, mvars, ovars>>

\* A transaction with no instruction, the locals and the record of a
\* process_transaction call that has not started.
NoTx == [signature |-> 0, instructions |-> <<>>]
NoMgr == [relevant_parsers |-> <<>>, k |-> 0, results |-> <<>>]
NoObs == [invoked |-> <<>>, launches |-> 0, announced |-> 0, published |-> 0,
          parser_errors |-> 0, outcome |-> "none"]
\* start_processing has pulled nothing; no decoder has returned; no delivery has
\* been made to the consume loop.
NoDisp == [batch |-> <<>>, pulled |-> <<>>, processed |-> <<>>, failed |-> <<>>]
NoParsed == [parser |-> "none"]
NoRmq == [stream |-> <<>>, next |-> 1, delivery |-> <<>>, log |-> <<>>]
NoReg == [declared |-> <<>>, program_id_to_parser |-> <<>>]
\* A call of publish_token_launch that was never made.
NoCall == [id |-> 0, launch |-> <<>>, payload |-> <<>>, result |-> "none",
           channel |-> <<>>, after |-> 0]
\* No RabbitMQ client exists: nothing is stored, initialised, published or received.
NoAmqp == [component |-> "none", connection |-> <<>>, channel |-> <<>>,
           step |-> "new", attempt |-> 0, before |-> <<>>, steps |-> <<>>, kinds |-> <<>>,
           holder |-> NoTask, waiters |-> <<>>,
           todo |-> <<>>, started |-> 0, call |-> [t \in Tasks |-> NoCall],
           broker |-> <<>>, accepted |-> <<>>, decoded |-> <<>>]

\* No transaction is being dispatched.
ManagerIdle ==
    /\ tx = NoTx
    /\ mgr = NoMgr
    /\ obs = NoObs
    /\ disp = NoDisp

\* No decoder is being exercised on its own, and there is no consume loop.
DecoderIdle == parsed = NoParsed
ConsumerIdle == rmq = NoRmq

\* No registry other than that of ParserManager::new is under study, and no
\* RabbitMQ client has been constructed.
RegistryIdle == reg = NoReg
AmqpIdle == amqp = NoAmqp

\* The ingestion client does not exist: the queue is driven by its callers alone.
ClientIdle ==
    /\ config = {}
    /\ tls = FALSE
    /\ msg = NoMsg
    /\ received = 0
    /\ iter_result = "none"
    /\ failed_at = "none"
    /\ last_pause = 0
    /\ subscribed = FALSE

\* ------------------------------------------------- the queue specification
\* TransactionQueue::new(max_size), lines 34-39: an empty deque, any capacity.
QueueInit ==
    /\ queue = <<>>
    /\ max_size \in 0..MaxCapacity
    /\ lock = NoTask
    /\ pc = [t \in Tasks |-> "idle"]
    /\ local = [t \in Tasks |-> NoLocals]
    /\ pushed = 0
    /\ delivered = <<>>
    /\ evicted = <<>>
    /\ ClientIdle
    /\ ManagerIdle
    /\ DecoderIdle
    /\ ConsumerIdle
    /\ RegistryIdle
    /\ AmqpIdle

QueueStep(t) ==
    \/ CallPush(t)
    \/ CallPop(t)
    \/ CallDrainAll(t)
    \/ \E n \in 0..MaxBatch : CallPopBatch(t, n)
    \/ Acquire(t)
    \/ PushLoopTest(t)
    \/ PushEvictStep(t)
    \/ PushBack(t)
    \/ PopFront(t)
    \/ Drain(t)
    \/ PopBatchIter(t)
    \/ Return(t)

QueueNext == \E t \in Tasks : QueueStep(t)

SpecQueue == QueueInit /\ [][QueueNext]_vars

\* Every task that can take a step eventually takes one (the tokio scheduler
\* runs every ready task).
FairSpecQueue == SpecQueue /\ \A t \in Tasks : WF_vars(QueueStep(t))

\* ------------------------------------------------ claims about the queue
\* A task is between taking the guard and dropping it.
InCritical(t) == pc[t] \notin {"idle", "lock"}

\* The items the queue would hold had nothing ever been removed: 1..n in push order.
FirstPushes(n) == [k \in 1..n |-> k]

\* Number of push calls whose push_back has been executed.
Appended == IF pc[Producer] \in {"idle", "ret"} THEN pushed ELSE pushed - 1

\* No consumer has removed anything from the queue so far.
NoConsumerRemoved == delivered = <<>> /\ \A c \in Consumers : local[c].batch = <<>>

\* C1: for a queue built with capacity C >= 1, in every reachable state of any
\* interleaving of push, pop, pop_batch and drain_all the queue holds at most C items.
C1_LengthWithinCapacity == max_size >= 1 => Len(queue) <= max_size

\* C1 witness: a full queue after push has evicted and consumers have popped.
C1_Witness ==
    /\ max_size >= 1
    /\ Len(queue) = max_size
    /\ evicted # <<>>
    /\ delivered # <<>>

\* C2: with no pops, after the pushes made so far the queue holds exactly the
\* min(C, n) most recently pushed items in push order; a push onto a queue holding
\* fewer than C items removes nothing; capacity 2 with pushes 1, 2, 3 leaves
\* <<2, 3>> and a following pop_batch(5) returns exactly <<2, 3>>.
C2_KeepsMostRecent ==
    /\ (pc[Producer] \in {"idle", "ret"} /\ NoConsumerRemoved)
          => queue = LastN(FirstPushes(pushed), max_size)
    /\ (pc[Producer] = "ret" /\ Len(local[Producer].snap) < max_size)
          => queue = local[Producer].snap \o local[Producer].item
    /\ \A c \in Consumers :
          (/\ max_size = 2
           /\ pc[c] = "ret"
           /\ local[c].op = "pop_batch"
           /\ local[c].max_count = 5
           /\ pushed = 3
           /\ pc[Producer] = "idle"
           /\ delivered = <<>>)
          => (local[c].snap = <<2, 3>> /\ local[c].batch = <<2, 3>> /\ queue = <<>>)

\* C2 witness: capacity 2, three pushes, one eviction, then pop_batch(5) has
\* returned two items.
C2_Witness ==
    \E c \in Consumers :
        /\ max_size = 2
        /\ pushed = 3
        /\ pc[Producer] = "idle"
        /\ evicted = <<1>>
        /\ delivered = <<>>
        /\ pc[c] = "ret"
        /\ local[c].op = "pop_batch"
        /\ local[c].max_count = 5
        /\ Len(local[c].batch) = 2

\* Every item that has been appended is in exactly one place: evicted, returned to
\* a consumer, in the batch of a consumer still inside its call, or in the queue;
\* and the items returned so far came out in push order.
NoLossNoDuplication ==
    LET out == evicted
               \o [k \in 1..Len(delivered) |-> delivered[k][2]]
               \o local["consumer1"].batch
               \o local["consumer2"].batch
               \o queue
    IN /\ Len(out) = Appended
       /\ Range(out) = 1..Appended
       /\ \A i, j \in 1..Len(delivered) : i < j => delivered[i][2] < delivered[j][2]

\* C3: pop_batch(n) returns min(n, length) items, the oldest ones in FIFO order,
\* and removes exactly those; calls that follow each other lose and duplicate
\* nothing, return the items in FIFO order, and a call with n at least the length
\* leaves the queue empty.
C3_PopBatchFifo ==
    /\ \A c \in Consumers :
          (pc[c] = "ret" /\ local[c].op = "pop_batch") =>
              /\ Len(local[c].batch) = Min(local[c].max_count, Len(local[c].snap))
              /\ local[c].batch = SubSeq(local[c].snap, 1, Len(local[c].batch))
              /\ queue = SubSeq(local[c].snap, Len(local[c].batch) + 1, Len(local[c].snap))
              /\ (local[c].max_count >= Len(local[c].snap) => queue = <<>>)
    /\ NoLossNoDuplication

\* C3 witness: a pop_batch that returned fewer items than the queue held, after an
\* earlier call had already returned items.
C3_Witness ==
    \E c \in Consumers :
        /\ pc[c] = "ret"
        /\ local[c].op = "pop_batch"
        /\ local[c].max_count >= 2
        /\ Len(local[c].batch) = local[c].max_count
        /\ queue # <<>>
        /\ delivered # <<>>

\* C4: push always completes, for every capacity (0 included): once the lock is
\* held the loop ends and the item is appended.
C4_PushCompletes == (pc[Producer] = "push_loop") ~> (pc[Producer] = "ret")

\* C5: operations take effect atomically under the lock: no two tasks are inside
\* the guarded section together, no item is returned twice or to two consumers,
\* and what a consumer has taken is a contiguous run from the front of the queue
\* as it was when the consumer took the lock.
C5_AtomicUnderLock ==
    /\ \A t1, t2 \in Tasks : (InCritical(t1) /\ InCritical(t2)) => t1 = t2
    /\ \A t \in Tasks : InCritical(t) => lock = t
    /\ \A i, j \in 1..Len(delivered) : delivered[i][2] = delivered[j][2] => i = j
    /\ \A c \in Consumers :
          /\ \A k \in 1..Len(delivered) : delivered[k][2] \notin Range(local[c].batch)
          /\ InCritical(c) => local[c].batch \o queue = local[c].snap
          /\ \A k \in 1..(Len(local[c].batch) - 1) :
                local[c].batch[k + 1] = local[c].batch[k] + 1

\* C5 witness: both consumers have been handed items, one of them is inside
\* pop_batch with an item taken, and the producer is waiting for the lock.
C5_Witness ==
    /\ \E i, j \in 1..Len(delivered) :
          delivered[i][1] = "consumer1" /\ delivered[j][1] = "consumer2"
    /\ \E c \in Consumers : lock = c /\ pc[c] = "pop_batch_loop" /\ Len(local[c].batch) = 1
    /\ pc[Producer] = "lock"

\* ============================================================ GeyserClient
\* ------------------------------------------------------------------ bounds
\* Largest number of transaction filters in Config.transactions.
MaxFilters == 2
\* Number of messages the stream yields in the client specification.
MaxMessages == 2
\* queue_size handed to GeyserClient::new in the client and filter specifications.
ClientQueueSize == 1

\* The account addresses that occur in filters and in transactions.
Accounts == {"A", "B"}

\* An Option<Vec<String>> of a filter: None, or Some(list); the list is kept as
\* the set of its elements, which is all that contains() and all() depend on.
None == <<>>
Some(x) == <<x>>
OptionalAccountLists == {None} \cup {Some(l) : l \in SUBSET Accounts}

\* TransactionFilter, the two fields should_queue_transaction reads.
TransactionFilters ==
    [account_include : OptionalAccountLists, account_required : OptionalAccountLists]

\* Every Config.transactions with at most n filters.
RECURSIVE ConfigsUpTo(_)
ConfigsUpTo(n) ==
    IF n = 0 THEN {{}}
    ELSE ConfigsUpTo(n - 1)
         \cup {c \cup {f} : c \in ConfigsUpTo(n - 1), f \in TransactionFilters}

\* Every Config.transactions with at most MaxFilters filters.
Configs == ConfigsUpTo(MaxFilters)

\* The configurations of the client specification: at most one filter.
LoopConfigs == ConfigsUpTo(1)

\* GeyserSubscribeUpdate, as far as process_message inspects it:
\* update_oneof (a transaction update or another kind), tx_info.transaction,
\* tx.transaction, the number of signatures, inner_tx.message and its account_keys.
Update(kind, has_tx, has_inner, signatures, has_message, account_keys) ==
    [kind |-> kind, has_tx |-> has_tx, has_inner |-> has_inner,
     signatures |-> signatures, has_message |-> has_message,
     account_keys |-> account_keys]

Messages ==
    {Update("other", FALSE, FALSE, 0, FALSE, {})}
    \cup {Update("transaction", FALSE, FALSE, 0, FALSE, {})}
    \cup {Update("transaction", TRUE, FALSE, 0, FALSE, {})}
    \cup {Update("transaction", TRUE, TRUE, 0, TRUE, Accounts)}
    \cup {Update("transaction", TRUE, TRUE, 1, FALSE, {})}
    \cup {Update("transaction", TRUE, TRUE, 1, TRUE, k) : k \in SUBSET Accounts}

\* A check that does not ask for a signature.
HasInnerTransaction(m) ==
    /\ m.kind = "transaction"
    /\ m.has_tx
    /\ m.has_inner
\* process_message, lines 94-101: the message is a transaction update with a
\* transaction, an inner transaction and a first signature.
HasSignature(m) ==
    /\ m.kind = "transaction"
    /\ m.has_tx
    /\ m.has_inner
    /\ m.signatures >= 1

\* process_message, lines 105-112: the accounts collected from account_keys.
CollectAccounts(m) == IF m.has_message THEN m.account_keys ELSE {}

\* should_queue_transaction, lines 140-147: some account of the include list is
\* in the transaction.
IncludeHit(f, accounts) ==
    /\ f.account_include # None
    /\ \E target \in f.account_include[1] : target \in accounts

\* A required-list check satisfied by any one of its accounts.
RequiredAny(f, accounts) ==
    /\ f.account_required # None
    /\ \E required \in f.account_required[1] : required \in accounts

\* should_queue_transaction, lines 149-158: all accounts of the required list are
\* in the transaction.
RequiredHit(f, accounts) ==
    /\ f.account_required # None
    /\ \A required \in f.account_required[1] : required \in accounts

\* should_queue_transaction, lines 137-162.
should_queue_transaction(accounts) ==
    \E f \in config : IncludeHit(f, accounts) \/ RequiredHit(f, accounts)

\* The ingestion task is the producer of the queue.
Ingest == Producer

\* An error branch that leaves the loop and ends the task.
AfterFailureReturn == "terminated"
\* start, lines 174-182: where the task goes when run_stream_loop returns Err.
AfterFailure == "loop_err"

\* start, line 180: the sleep after an error, in seconds.
ErrorBackoffSecs == 5
\* A clean stream end that pauses as long as an error does.
PauseAsBackoff == ErrorBackoffSecs
\* run_stream_loop, line 244: the sleep after a clean stream end, in seconds.
ShortPauseSecs == 1

ClientUnchangedQueue ==
    UNCHANGED <<queue, max_size, lock, local, pushed, delivered, evicted, mvars, ovars>>

\* start, lines 174-177: the loop calls run_stream_loop again.
LoopTop ==
    /\ pc[Ingest] = "loop_top"
    /\ pc' = [pc EXCEPT ![Ingest] = "build"]
    /\ iter_result' = "none"
    /\ failed_at' = "none"
    /\ last_pause' = 0
    /\ ClientUnchangedQueue
    /\ UNCHANGED <<config, tls, msg, received, subscribed>>

\* One fallible step of run_stream_loop: on success the next statement, on
\* failure `?` returns Err to start.
Fallible(at, next) ==
    /\ pc[Ingest] = at
    /\ \/ /\ pc' = [pc EXCEPT ![Ingest] = next]
          /\ subscribed' = (next = "recv")
          /\ UNCHANGED <<iter_result, failed_at>>
       \/ /\ pc' = [pc EXCEPT ![Ingest] = AfterFailure]
          /\ iter_result' = "Err"
          /\ failed_at' = at
          /\ subscribed' = FALSE
    /\ ClientUnchangedQueue
    /\ UNCHANGED <<config, tls, msg, received, last_pause>>

\* run_stream_loop, lines 196-197: GeyserGrpcClient::build_from_shared(..)?
BuildClient == Fallible("build", "token")
\* lines 199-207: x_token(..)?, then TLS only for an https endpoint.
SetToken == Fallible("token", IF tls THEN "tls" ELSE "connect")
ConfigureTls == Fallible("tls", "connect")
\* lines 209-212: builder.connect().await?
Connect == Fallible("connect", "subscribe")
\* line 217: client.subscribe().await?
Subscribe == Fallible("subscribe", "send")
\* line 220: sink.send(request.clone()).await?
SendRequest == Fallible("send", "recv")

\* run_stream_loop, lines 224-239: stream.next().await yields a message, an
\* error item, or nothing more.
Receive ==
    /\ pc[Ingest] = "recv"
    /\ \/ /\ received < MaxMessages
          /\ \E m \in Messages : msg' = m
          /\ received' = received + 1
          /\ pc' = [pc EXCEPT ![Ingest] = "process"]
          /\ UNCHANGED <<iter_result, failed_at, subscribed>>
       \/ /\ pc' = [pc EXCEPT ![Ingest] = AfterFailure]
          /\ iter_result' = "Err"
          /\ failed_at' = "stream"
          /\ subscribed' = FALSE
          /\ UNCHANGED <<msg, received>>
       \/ /\ pc' = [pc EXCEPT ![Ingest] = "stream_ended"]
          /\ UNCHANGED <<msg, received, iter_result, failed_at, subscribed>>
    /\ ClientUnchangedQueue
    /\ UNCHANGED <<config, tls, last_pause>>

\* process_message, lines 92-134, up to the call of push: a transaction with a
\* signature whose accounts pass the filter is handed to push (which first waits
\* for the lock); every other message is dropped.
ProcessMessage ==
    /\ pc[Ingest] = "process"
    /\ IF HasSignature(msg) /\ should_queue_transaction(CollectAccounts(msg))
       THEN /\ local' = [local EXCEPT ![Ingest] =
                           [NoLocals EXCEPT !.op = "push",
                                            !.item = <<[signature |-> received,
                                                        accounts |-> CollectAccounts(msg)]>>]]
            /\ pushed' = pushed + 1
            /\ pc' = [pc EXCEPT ![Ingest] = "lock"]
       ELSE /\ pc' = [pc EXCEPT ![Ingest] = "idle"]
            /\ UNCHANGED <<local, pushed>>
    /\ UNCHANGED <<queue, max_size, lock, delivered, evicted>>
    /\ UNCHANGED <<cvars, mvars, ovars>>

\* process_message returns (line 134) and the loop reads the stream again (line 224).
MessageDone ==
    /\ pc[Ingest] = "idle"
    /\ msg # NoMsg
    /\ msg' = NoMsg
    /\ pc' = [pc EXCEPT ![Ingest] = "recv"]
    /\ ClientUnchangedQueue
    /\ UNCHANGED <<config, tls, received, iter_result, failed_at, last_pause, subscribed>>

\* run_stream_loop, lines 243-246: warn!, sleep, return Ok(()); in start the
\* `if let Err` does not match and the loop goes round.
StreamEnded ==
    /\ pc[Ingest] = "stream_ended"
    /\ last_pause' = ShortPauseSecs
    /\ iter_result' = "Ok"
    /\ subscribed' = FALSE
    /\ pc' = [pc EXCEPT ![Ingest] = "loop_top"]
    /\ ClientUnchangedQueue
    /\ UNCHANGED <<config, tls, msg, received, failed_at>>

\* start, lines 179-180: error!, sleep, and the loop goes round.
ErrorBackoff ==
    /\ pc[Ingest] = "loop_err"
    /\ last_pause' = ErrorBackoffSecs
    /\ pc' = [pc EXCEPT ![Ingest] = "loop_top"]
    /\ ClientUnchangedQueue
    /\ UNCHANGED <<config, tls, msg, received, iter_result, failed_at, subscribed>>

\* push as called from process_message: the statements of TransactionQueue::push.
IngestPush ==
    \/ Acquire(Ingest)
    \/ PushLoopTest(Ingest)
    \/ PushEvictStep(Ingest)
    \/ PushBack(Ingest)
    \/ Return(Ingest)

\* GeyserClient::new and start (lines 25-31, 165-173): an empty queue, the task
\* spawned at the top of its loop.
ClientInit ==
    /\ queue = <<>>
    /\ max_size = ClientQueueSize
    /\ lock = NoTask
    /\ pc = [t \in Tasks |-> IF t = Ingest THEN "loop_top" ELSE "idle"]
    /\ local = [t \in Tasks |-> NoLocals]
    /\ pushed = 0
    /\ delivered = <<>>
    /\ evicted = <<>>
    /\ config \in LoopConfigs
    /\ tls \in BOOLEAN
    /\ msg = NoMsg
    /\ received = 0
    /\ iter_result = "none"
    /\ failed_at = "none"
    /\ last_pause = 0
    /\ subscribed = FALSE
    /\ ManagerIdle
    /\ DecoderIdle
    /\ ConsumerIdle
    /\ RegistryIdle
    /\ AmqpIdle

ClientNext ==
    \/ LoopTop
    \/ BuildClient
    \/ SetToken
    \/ ConfigureTls
    \/ Connect
    \/ Subscribe
    \/ SendRequest
    \/ Receive
    \/ ProcessMessage
    \/ IngestPush
    \/ MessageDone
    \/ StreamEnded
    \/ ErrorBackoff

SpecClient == ClientInit /\ [][ClientNext]_vars

\* The spawned task is scheduled whenever it can run.
FairSpecClient == SpecClient /\ WF_vars(ClientNext)

\* ------------------------------------------------ the filter specification
\* process_message applied to one message of the stream under every
\* configuration: the task has connected and subscribed, the queue is empty or
\* filled to its capacity by earlier transactions the filters let through, and
\* the next message has just been received.
FilterInit ==
    /\ config \in Configs
    /\ max_size = ClientQueueSize
    /\ \E earlier \in {0, ClientQueueSize}, a \in SUBSET Accounts :
          /\ earlier = 0 \/ should_queue_transaction(a)
          /\ queue = [k \in 1..earlier |-> [signature |-> k, accounts |-> a]]
          /\ received = earlier + 1
          /\ pushed = earlier
    /\ lock = NoTask
    /\ pc = [t \in Tasks |-> IF t = Ingest THEN "process" ELSE "idle"]
    /\ local = [t \in Tasks |-> NoLocals]
    /\ delivered = <<>>
    /\ evicted = <<>>
    /\ tls = FALSE
    /\ msg \in Messages
    /\ iter_result = "none"
    /\ failed_at = "none"
    /\ last_pause = 0
    /\ subscribed = TRUE
    /\ ManagerIdle
    /\ DecoderIdle
    /\ ConsumerIdle
    /\ RegistryIdle
    /\ AmqpIdle

FilterNext ==
    \/ ProcessMessage
    \/ IngestPush
    \/ MessageDone

SpecFilter == FilterInit /\ [][FilterNext]_vars

\* ----------------------------------------------- claims about the client
\* C6: the ingestion loop never terminates on its own: after every failure of an
\* iteration (build, token, TLS, connect, subscribe, send, stream error item) the
\* task takes the error backoff and then starts a new connection attempt.
C6_RetriesAfterEveryFailure ==
    /\ [](pc[Ingest] # "terminated")
    /\ [](iter_result = "Err" =>
             \/ pc[Ingest] = "loop_err"
             \/ pc[Ingest] = "loop_top" /\ last_pause = ErrorBackoffSecs)
    /\ (iter_result = "Err") ~> (pc[Ingest] = "build")

\* C6 witness: the stream yielded an error item after a message had been
\* processed, and the error backoff has been taken.
C6_Witness ==
    /\ iter_result = "Err"
    /\ failed_at = "stream"
    /\ received >= 1
    /\ last_pause = ErrorBackoffSecs
    /\ pc[Ingest] = "loop_top"

\* C7: when the stream ends cleanly the task takes the short pause, not the error
\* backoff, then starts run_stream_loop again (new connection, request sent again
\* before anything is read); it does not terminate.
C7_ReconnectsAfterCleanEnd ==
    /\ [](pc[Ingest] \notin {"terminated", "loop_err"} \/ iter_result # "Ok")
    /\ [](iter_result = "Ok" =>
             /\ pc[Ingest] = "loop_top"
             /\ last_pause = 1
             /\ last_pause # ErrorBackoffSecs)
    /\ [](pc[Ingest] \in {"recv", "process"} => subscribed)
    /\ (pc[Ingest] = "stream_ended") ~> (pc[Ingest] = "build")

\* C7 witness: the stream ended cleanly after a message had been processed and
\* the short pause has been taken.
C7_Witness ==
    /\ iter_result = "Ok"
    /\ received >= 1
    /\ last_pause = ShortPauseSecs
    /\ pc[Ingest] = "loop_top"

\* The filter policy as the specification words it: some configured filter has an
\* include-list sharing an account with the transaction, or a required-list that
\* the transaction's accounts cover.
MatchesSomeFilter(accounts) ==
    \E f \in config :
        \/ f.account_include # None /\ f.account_include[1] \cap accounts # {}
        \/ f.account_required # None /\ f.account_required[1] \subseteq accounts

\* process_message has returned for the current message.
Processed == pc[Ingest] = "idle" /\ msg # NoMsg

\* The transaction built from the current message is the newest item of the queue.
QueuedCurrent ==
    /\ queue # <<>>
    /\ queue[Len(queue)] = [signature |-> received, accounts |-> CollectAccounts(msg)]

\* C8: a transaction message with at least one signature is pushed to the queue
\* if and only if, for some configured filter, its accounts contain an account of
\* the include-list or every account of the required-list.
C8_QueuedIffFilterMatches ==
    (Processed /\ HasSignature(msg)) =>
        (QueuedCurrent <=> MatchesSomeFilter(CollectAccounts(msg)))

\* C8 witness: with two filters configured, a transaction was queued through a
\* non-empty required-list alone, no include-list containing any of its accounts,
\* the push evicting an earlier transaction.
C8_Witness ==
    /\ Processed
    /\ evicted # <<>>
    /\ HasSignature(msg)
    /\ QueuedCurrent
    /\ Cardinality(config) = 2
    /\ \A f \in config : ~IncludeHit(f, CollectAccounts(msg))
    /\ \A f \in config : f.account_required # Some({})

\* =========================================================== ParserManager
\* ------------------------------------------------------------------ bounds
\* Largest number of instructions of a transaction.
MaxInstructions == 3
\* Largest number of results one parse_transaction call returns.
MaxResults == 2

\* The program ids the two decoders declare (pumpfun.rs line 14, meteora.rs
\* line 17), and a program no decoder declares.
PumpfunProgramId == "6EF8rrecthR5Dkzon8Nwu78hRvfCKubJ14M5uBEwF6P"
MeteoraProgramId == "dbcij3LWUppWqq96dh6gJWwBifmcGfLSB5D4DuSMaqN"
OtherProgramId == "11111111111111111111111111111111"
ProgramIds == {PumpfunProgramId, MeteoraProgramId, OtherProgramId}

\* ParserManager::new, lines 15-32: parsers[0] is the Pumpfun decoder, parsers[1]
\* the Meteora decoder (positions counted from 0, as the code does);
\* get_program_ids of each.
get_program_ids(parser_index) ==
    IF parser_index = 0 THEN {PumpfunProgramId} ELSE {MeteoraProgramId}
ParserCount == 2

\* program_id_to_parser after new(): every declared id inserted under its
\* decoder's index, decoder by decoder, a later insert replacing an earlier one.
RECURSIVE RegisterFrom(_, _)
RegisterFrom(parser_index, map) ==
    IF parser_index >= ParserCount THEN map
    ELSE RegisterFrom(parser_index + 1,
            [id \in DOMAIN map \cup get_program_ids(parser_index) |->
                IF id \in get_program_ids(parser_index) THEN parser_index ELSE map[id]])

program_id_to_parser == RegisterFrom(0, <<>>)

\* A lookup that falls back to the first decoder for an unknown program id.
LookupOrFirstParser(program_id) ==
    IF program_id \in DOMAIN program_id_to_parser
    THEN Some(program_id_to_parser[program_id])
    ELSE Some(0)

\* program_id_to_parser.get(&instruction.program_id), line 74, as an Option.
LookupParser(program_id) ==
    IF program_id \in DOMAIN program_id_to_parser
    THEN Some(program_id_to_parser[program_id])
    ELSE None

\* process_transaction, lines 70-79: the distinct decoder indices of the
\* instructions' program ids, in order of first appearance.
RECURSIVE RelevantParsers(_, _)
RelevantParsers(instructions, relevant_parsers) ==
    IF instructions = <<>> THEN relevant_parsers
    ELSE LET found == LookupParser(Head(instructions).program_id)
         IN IF found # None /\ found[1] \notin Range(relevant_parsers)
            THEN RelevantParsers(Tail(instructions), Append(relevant_parsers, found[1]))
            ELSE RelevantParsers(Tail(instructions), relevant_parsers)

\* The variants of ParseResult (launchpad_parser.rs lines 32-48).
ParseResults == {"TokenLaunch", "Trade", "Other", "NotRelevant"}

\* Sequences over S of length at most n.
SeqsUpTo(S, n) == UNION {[1..k -> S] : k \in 0..n}

\* What LaunchpadParser::parse_transaction may return (launchpad_parser.rs lines
\* 55-58): Ok with a list of results, or Err.
ParseOutcomes ==
    {[ok |-> TRUE, results |-> r] : r \in SeqsUpTo(ParseResults, MaxResults)}
    \cup {[ok |-> FALSE, results |-> <<>>]}

\* The transactions handed to process_transaction: every instruction list of at
\* most MaxInstructions instructions over the program ids.
Transactions ==
    {[signature |-> 1, instructions |-> [k \in 1..Len(ids) |-> [program_id |-> ids[k]]]] :
        ids \in SeqsUpTo(ProgramIds, MaxInstructions)}

\* The dispatch task.
Dispatcher == "consumer1"

ManagerUnchangedRest == UNCHANGED <<qvars_but_pc, cvars, ovars>>

\* process_transaction, lines 70-83: with the relevant decoders collected from
\* the registry, return Ok at once when there is none.
ScanWith(collected) ==
    /\ pc[Dispatcher] = "pt_scan"
    /\ LET relevant_parsers == collected
       IN IF relevant_parsers = <<>>
          THEN /\ obs' = [obs EXCEPT !.outcome = "Ok"]
               /\ pc' = [pc EXCEPT ![Dispatcher] = "pt_done"]
               /\ UNCHANGED mgr
          ELSE /\ mgr' = [relevant_parsers |-> relevant_parsers, k |-> 1, results |-> <<>>]
               /\ pc' = [pc EXCEPT ![Dispatcher] = "pt_parse"]
               /\ UNCHANGED obs
    /\ UNCHANGED <<tx, disp>>
    /\ ManagerUnchangedRest

\* process_transaction with the registry ParserManager::new builds.
Scan == ScanWith(RelevantParsers(tx.instructions, <<>>))

\* A decoder error that ends the loop over the relevant decoders.
AbortOnParserError(k, n) == n + 1
\* process_transaction, lines 107-109: the Err arm only logs with warn!, so the
\* for loop of line 86 goes on with the decoder after position k of n.
AfterParserError(k, n) == k + 1

\* process_transaction, lines 86-88 and 107-109, 114: the next relevant decoder is
\* called with the transaction and returns one of outcomes; Err is logged with
\* warn! and the loop goes on; after the last decoder the function returns Ok.
InvokeParserWith(outcomes) ==
    /\ pc[Dispatcher] = "pt_parse"
    /\ IF mgr.k > Len(mgr.relevant_parsers)
       THEN /\ obs' = [obs EXCEPT !.outcome = "Ok"]
            /\ pc' = [pc EXCEPT ![Dispatcher] = "pt_done"]
            /\ UNCHANGED mgr
       ELSE \E outcome \in outcomes :
            /\ obs' = [obs EXCEPT
                          !.invoked = Append(@, mgr.relevant_parsers[mgr.k]),
                          !.launches = @ + Cardinality({j \in 1..Len(outcome.results) :
                                                          outcome.results[j] = "TokenLaunch"}),
                          !.parser_errors = @ + (IF outcome.ok THEN 0 ELSE 1)]
            /\ IF outcome.ok
               THEN /\ mgr' = [mgr EXCEPT !.results = outcome.results]
                    /\ pc' = [pc EXCEPT ![Dispatcher] = "pt_result"]
               ELSE /\ mgr' = [mgr EXCEPT !.k = AfterParserError(@, Len(mgr.relevant_parsers))]
                    /\ pc' = pc
    /\ UNCHANGED <<tx, disp>>
    /\ ManagerUnchangedRest

\* The decoder is any implementation of the LaunchpadParser trait.
InvokeParser == InvokeParserWith(ParseOutcomes)

\* handle_token_launch, lines 118-139: the launch is written to the log with
\* info! and Ok(()) is returned; nothing else is called.
handle_token_launch(o) == [o EXCEPT !.announced = @ + 1]

\* process_transaction, lines 90-105: the next result of the current decoder; a
\* TokenLaunch goes to handle_token_launch, every other variant is skipped.
HandleResult ==
    /\ pc[Dispatcher] = "pt_result"
    /\ IF mgr.results = <<>>
       THEN /\ mgr' = [mgr EXCEPT !.k = @ + 1]
            /\ pc' = [pc EXCEPT ![Dispatcher] = "pt_parse"]
            /\ UNCHANGED obs
       ELSE /\ mgr' = [mgr EXCEPT !.results = Tail(@)]
            /\ obs' = IF Head(mgr.results) = "TokenLaunch"
                      THEN handle_token_launch(obs)
                      ELSE obs
            /\ pc' = pc
    /\ UNCHANGED <<tx, disp>>
    /\ ManagerUnchangedRest

\* ------------------------------------------------ the manager specification
\* ParserManager::new, then process_transaction called with any transaction.
ManagerInit ==
    /\ queue = <<>>
    /\ max_size = ClientQueueSize
    /\ lock = NoTask
    /\ pc = [t \in Tasks |-> IF t = Dispatcher THEN "pt_scan" ELSE "idle"]
    /\ local = [t \in Tasks |-> NoLocals]
    /\ pushed = 0
    /\ delivered = <<>>
    /\ evicted = <<>>
    /\ ClientIdle
    /\ tx \in Transactions
    /\ mgr = NoMgr
    /\ obs = NoObs
    /\ disp = NoDisp
    /\ DecoderIdle
    /\ ConsumerIdle
    /\ RegistryIdle
    /\ AmqpIdle

ManagerNext ==
    \/ Scan
    \/ InvokeParser
    \/ HandleResult

SpecManager == ManagerInit /\ [][ManagerNext]_vars

\* ---------------------------------------------- claims about the manager
\* process_transaction has returned.
Returned == pc[Dispatcher] = "pt_done"

\* C9: every TokenLaunch a decoder returned during process_transaction is handed
\* to publish exactly once; Trade, Other and NotRelevant results cause no publish
\* and are not reported as errors.
C9_LaunchesPublishedOnce ==
    Returned =>
        /\ obs.published = obs.launches
        /\ obs.outcome = "Ok"

\* C10: a transaction none of whose instructions carries a registered program id
\* causes no decoder invocation and no publish, and process_transaction returns Ok.
C10_UnknownProgramsAreNoOp ==
    (/\ pc[Dispatcher] # "pt_scan"
     /\ \A k \in 1..Len(tx.instructions) :
           tx.instructions[k].program_id \notin {PumpfunProgramId, MeteoraProgramId})
    => /\ Returned
       /\ obs.invoked = <<>>
       /\ obs.published = 0
       /\ obs.outcome = "Ok"

\* C10 witness: process_transaction has returned for a transaction with the most
\* instructions, none of a registered program.
C10_Witness ==
    /\ Returned
    /\ Len(tx.instructions) = MaxInstructions
    /\ \A k \in 1..Len(tx.instructions) : tx.instructions[k].program_id = OtherProgramId

\* ========================================================= start_processing
\* ------------------------------------------------------------------ bounds
\* Number of transactions that reach the queue while start_processing runs.
MaxArrivals == 3

\* pop_batch(10), manager.rs line 45.
DispatchBatchSize == 10

\* The instruction lists of the transactions that arrive: one for no decoder,
\* one for a single decoder, one for both decoders.
DispatchInstructionLists ==
    {<<OtherProgramId>>,
     <<PumpfunProgramId>>,
     <<PumpfunProgramId, MeteoraProgramId>>}

\* TransactionQueue::push as one step (queue.rs lines 42-53): the front is removed
\* while the deque is at capacity, then the transaction is appended (the
\* capacity is at least 1 wherever this is used).
RECURSIVE push(_, _, _)
push(q, cap, transaction) ==
    IF PushLoopCond(q, cap)
    THEN push(PushEvict(q).rest, cap, transaction)
    ELSE Append(q, transaction)

\* TransactionQueue::push, lines 46-50: the transactions the loop removes from the
\* front (each one is reported with warn!), in removal order.
RECURSIVE push_removed(_, _)
push_removed(q, cap) ==
    IF PushLoopCond(q, cap)
    THEN PushEvict(q).item \o push_removed(PushEvict(q).rest, cap)
    ELSE <<>>

\* TransactionQueue::pop_batch as one step (queue.rs lines 80-93): the batch and
\* what is left of the deque, starting from iteration i with the batch so far.
RECURSIVE pop_batch(_, _, _, _)
pop_batch(q, max_count, i, batch) ==
    IF PopBatchInRange(i, max_count) /\ pop_front(q).item # <<>>
    THEN pop_batch(pop_front(q).rest, max_count, i + 1, batch \o pop_front(q).item)
    ELSE [batch |-> batch, rest |-> q]

\* What the two decoders of ParserManager::new return (pumpfun.rs lines 46 and
\* 51, meteora.rs lines 54, 66 and 72): a list of one result; and Err, which
\* their signature allows.
OneResultOutcomes == {o \in ParseOutcomes : ~o.ok \/ Len(o.results) = 1}

\* process_transaction called from start_processing with the registered decoders.
InvokeRegisteredParser == InvokeParserWith(OneResultOutcomes)

DispatchUnchangedRest ==
    UNCHANGED <<max_size, lock, local, delivered, evicted, cvars, ovars>>

\* The ingestion task pushes one more transaction (client.rs line 125).
Arrive ==
    /\ pushed < MaxArrivals
    /\ \E ids \in DispatchInstructionLists :
        queue' = push(queue, max_size,
                      [signature |-> pushed + 1,
                       instructions |-> [k \in 1..Len(ids) |-> [program_id |-> ids[k]]]])
    /\ evicted' = evicted \o [k \in 1..Len(push_removed(queue, max_size)) |->
                                push_removed(queue, max_size)[k].signature]
    /\ pushed' = pushed + 1
    /\ UNCHANGED <<pc, mvars>>
    /\ UNCHANGED <<max_size, lock, local, delivered, cvars, ovars>>

\* start_processing, lines 45-50: pop_batch(10); an empty batch leads to the sleep.
PullBatch ==
    /\ pc[Dispatcher] = "sp_pull"
    /\ LET transactions == pop_batch(queue, DispatchBatchSize, 0, <<>>)
       IN /\ queue' = transactions.rest
          /\ disp' = [disp EXCEPT
                         !.batch = transactions.batch,
                         !.pulled = @ \o [k \in 1..Len(transactions.batch) |->
                                              transactions.batch[k].signature]]
          /\ pc' = [pc EXCEPT ![Dispatcher] =
                        IF transactions.batch = <<>> THEN "sp_sleep" ELSE "sp_for"]
    /\ UNCHANGED <<pushed, tx, mgr, obs>>
    /\ DispatchUnchangedRest

\* A loop that ends when it finds the queue empty.
AfterEmptyBatchReturn == "returned"
\* start_processing, line 49: continue, to pop_batch at the top of the loop.
AfterEmptyBatch == "sp_pull"

\* start_processing, lines 48-49: sleep(1 ms); continue.
EmptyBatchSleep ==
    /\ pc[Dispatcher] = "sp_sleep"
    /\ pc' = [pc EXCEPT ![Dispatcher] = AfterEmptyBatch]
    /\ UNCHANGED <<queue, pushed, mvars>>
    /\ DispatchUnchangedRest

\* start_processing, lines 54-55: the for loop takes the next transaction of the
\* batch and calls process_transaction; after the last one the outer loop repeats.
NextTransaction ==
    /\ pc[Dispatcher] = "sp_for"
    /\ IF disp.batch = <<>>
       THEN /\ pc' = [pc EXCEPT ![Dispatcher] = "sp_pull"]
            /\ UNCHANGED <<tx, mgr, obs, disp>>
       ELSE /\ tx' = Head(disp.batch)
            /\ disp' = [disp EXCEPT !.batch = Tail(@)]
            /\ mgr' = NoMgr
            /\ obs' = NoObs
            /\ pc' = [pc EXCEPT ![Dispatcher] = "pt_scan"]
    /\ UNCHANGED <<queue, pushed>>
    /\ DispatchUnchangedRest

\* start_processing, lines 55-60: process_transaction has returned; an Err is
\* written to the log with error! and the for loop goes on.
TransactionDone ==
    /\ pc[Dispatcher] = "pt_done"
    /\ disp' = [disp EXCEPT
                   !.processed = Append(@, tx.signature),
                   !.failed = IF obs.parser_errors > 0
                             THEN Append(@, <<tx.signature, obs.invoked>>)
                             ELSE @]
    /\ pc' = [pc EXCEPT ![Dispatcher] = "sp_for"]
    /\ UNCHANGED <<queue, pushed, tx, mgr, obs>>
    /\ DispatchUnchangedRest

\* ---------------------------------------------- the dispatch specification
\* ParserManager::new and TransactionQueue::new, then start_processing.
DispatchInit ==
    /\ queue = <<>>
    /\ max_size \in 1..MaxCapacity
    /\ lock = NoTask
    /\ pc = [t \in Tasks |-> IF t = Dispatcher THEN "sp_pull" ELSE "idle"]
    /\ local = [t \in Tasks |-> NoLocals]
    /\ pushed = 0
    /\ delivered = <<>>
    /\ evicted = <<>>
    /\ ClientIdle
    /\ ManagerIdle
    /\ DecoderIdle
    /\ ConsumerIdle
    /\ RegistryIdle
    /\ AmqpIdle

\* The steps of the task that runs start_processing.
DispatchStep ==
    \/ PullBatch
    \/ EmptyBatchSleep
    \/ NextTransaction
    \/ Scan
    \/ InvokeRegisteredParser
    \/ HandleResult
    \/ TransactionDone

DispatchNext ==
    \/ Arrive
    \/ DispatchStep

SpecDispatch == DispatchInit /\ [][DispatchNext]_vars

\* The scheduler runs the dispatch task whenever it can take a step.
FairSpecDispatch == SpecDispatch /\ WF_vars(DispatchStep)

\* ------------------------------------------- claims about start_processing
\* The signatures of the transactions of a batch.
Signatures(batch) == [k \in 1..Len(batch) |-> batch[k].signature]

\* The dispatch task is inside process_transaction.
InTransaction == pc[Dispatcher] \in {"pt_scan", "pt_parse", "pt_result", "pt_done"}

\* Every relevant decoder was invoked for the current transaction although one
\* of them reported an error.
AllDecodersInvokedDespiteError ==
    (Returned /\ obs.parser_errors > 0)
        => obs.invoked = RelevantParsers(tx.instructions, <<>>)

\* Every transaction pulled so far is processed, being processed, or still
\* waiting in the batch, in the order it was pulled.
BatchCarriesOn ==
    disp.pulled =
        disp.processed
        \o (IF InTransaction THEN <<tx.signature>> ELSE <<>>)
        \o Signatures(disp.batch)

\* C11: when a decoder reports an error for a transaction, the remaining relevant
\* decoders are still invoked for it, the remaining transactions of the batch are
\* still processed, and the dispatch loop goes on to pull the next batch.
C11_DecoderErrorIsLocal ==
    /\ [](AllDecodersInvokedDespiteError /\ BatchCarriesOn)
    /\ \A n \in 1..MaxArrivals :
          (InTransaction /\ tx.signature = n /\ obs.parser_errors > 0)
              ~> (pc[Dispatcher] = "sp_pull" /\ n \in Range(disp.processed)
                  /\ disp.batch = <<>>)

\* C11 witness: the loop is back at pop_batch after two transactions; a decoder
\* reported an error for the first, for which both decoders were invoked.
C11_Witness ==
    /\ pc[Dispatcher] = "sp_pull"
    /\ disp.processed = <<1, 2>>
    /\ disp.failed = << <<1, <<0, 1>>>> >>

\* ================================================================= decoders
\* The discriminators of the create instructions (pumpfun.rs line 38, meteora.rs
\* lines 46 and 57).
PumpfunCreate == <<24, 30, 200, 40, 5, 28, 7, 119>>
MeteoraInitSplToken == <<140, 85, 215, 176, 102, 54, 104, 79>>
MeteoraInitToken2022 == <<169, 118, 51, 78, 145, 110, 220, 155>>

\* A lookup that yields the last element for a position past the end.
GetClamped(v, i) ==
    IF v = <<>> THEN None
    ELSE IF i < Len(v) THEN Some(v[i + 1]) ELSE Some(v[Len(v)])
\* Vec::get(i), positions counted from 0: None for a position past the end
\* (pumpfun.rs lines 64-66, meteora.rs lines 85-91).
Get(v, i) == IF i < Len(v) THEN Some(v[i + 1]) ELSE None

\* A continuation byte of UTF-8, and the value it carries.
IsCont(b) == b >= 128 /\ b <= 191
Cont(b) == b - 128

\* String::from_utf8 (pumpfun.rs line 151, meteora.rs line 177): the code points
\* of the bytes when they are well-formed UTF-8 (shortest form, no surrogates,
\* at most U+10FFFF), None otherwise.
RECURSIVE Utf8Decode(_, _)
Utf8Decode(bytes, chars) ==
    IF bytes = <<>> THEN Some(chars)
    ELSE LET b0 == bytes[1]
             n == Len(bytes)
         IN IF b0 < 128
            THEN Utf8Decode(Tail(bytes), Append(chars, b0))
            ELSE IF b0 >= 194 /\ b0 <= 223
            THEN IF n >= 2 /\ IsCont(bytes[2])
                 THEN Utf8Decode(SubSeq(bytes, 3, n),
                                 Append(chars, (b0 - 192) * 64 + Cont(bytes[2])))
                 ELSE None
            ELSE IF b0 >= 224 /\ b0 <= 239
            THEN IF /\ n >= 3
                    /\ IsCont(bytes[2])
                    /\ IsCont(bytes[3])
                    /\ (b0 = 224 => bytes[2] >= 160)
                    /\ (b0 = 237 => bytes[2] <= 159)
                 THEN Utf8Decode(SubSeq(bytes, 4, n),
                                 Append(chars, (b0 - 224) * 4096 + Cont(bytes[2]) * 64
                                               + Cont(bytes[3])))
                 ELSE None
            ELSE IF b0 >= 240 /\ b0 <= 244
            THEN IF /\ n >= 4
                    /\ IsCont(bytes[2])
                    /\ IsCont(bytes[3])
                    /\ IsCont(bytes[4])
                    /\ (b0 = 240 => bytes[2] >= 144)
                    /\ (b0 = 244 => bytes[2] <= 143)
                 THEN Utf8Decode(SubSeq(bytes, 5, n),
                                 Append(chars, (b0 - 240) * 262144 + Cont(bytes[2]) * 4096
                                               + Cont(bytes[3]) * 64 + Cont(bytes[4])))
                 ELSE None
            ELSE None

\* A conversion that keeps every byte as a character and never fails.
from_bytes_unchecked(bytes) == Some(bytes)
from_utf8(bytes) == Utf8Decode(bytes, <<>>)

\* The width of the u32 length prefix, in bits.
u32_BITS == 32
\* usize::BITS on the 64-bit targets the program is built for.
usize_BITS == 64

\* A usize is held as its 16-bit limbs, the lowest first, as the integers of
\* the model checker end at 2^31 - 1.
usize_LIMBS == usize_BITS \div 16
usize(n) ==
    [k \in 1..usize_LIMBS |->
        IF k = 1 THEN n % 65536 ELSE IF k = 2 THEN n \div 65536 ELSE 0]

\* u32::from_le_bytes([..]) as usize (pumpfun.rs lines 137-142).
u32_from_le_bytes(b0, b1, b2, b3) ==
    [k \in 1..usize_LIMBS |->
        IF k = 1 THEN b0 + b1 * 256 ELSE IF k = 2 THEN b2 + b3 * 256 ELSE 0]

\* usize + usize: the sum modulo 2^usize_BITS and whether it overflowed.
RECURSIVE AddLimbs(_, _, _, _)
AddLimbs(a, b, k, carry) ==
    IF k > usize_LIMBS THEN <<carry>>
    ELSE <<(a[k] + b[k] + carry) % 65536>>
         \o AddLimbs(a, b, k + 1, (a[k] + b[k] + carry) \div 65536)
overflowing_add(a, b) ==
    [value |-> SubSeq(AddLimbs(a, b, 1, 0), 1, usize_LIMBS),
     overflow |-> AddLimbs(a, b, 1, 0)[usize_LIMBS + 1] = 1]

\* a > b on usize.
RECURSIVE GreaterFrom(_, _, _)
GreaterFrom(a, b, k) ==
    IF k = 0 THEN FALSE
    ELSE IF a[k] # b[k] THEN a[k] > b[k]
    ELSE GreaterFrom(a, b, k - 1)
Greater(a, b) == GreaterFrom(a, b, usize_LIMBS)

\* A usize that is at most the length of a payload, as an integer of the model.
AsIndex(a) == a[1] + a[2] * 65536

\* A second read that starts where the first one started.
CursorNotAdvanced(cursor, new_cursor) == cursor
\* cursor = new_cursor (pumpfun.rs line 107, meteora.rs line 133).
AdvanceCursor(cursor, new_cursor) == new_cursor

\* LaunchMetadata with every field None (pumpfun.rs lines 93-99, 121-127).
NoMetadata == [name |-> None, symbol |-> None, uri |-> None,
               initial_supply |-> None, mint_authority |-> None]

\* What a call does: it returns a value or it panics.
ReturnedValue(value) == [panic |-> FALSE, value |-> value]
Panicked == [panic |-> TRUE, value |-> None]

\* extract_string_from_data (pumpfun.rs lines 131-156; meteora.rs lines 157-182
\* is the same function): the string whose 4-byte length starts at position
\* start (counted from 0) and the position after it, or None. start is 8 or the
\* end of the string before, so start + 4 does not overflow; str_start + len
\* panics on overflow in a build with overflow checks and wraps in one without,
\* and a slice whose end lies before its start or past the payload panics.
ExtractString(data, start, overflow_checks) ==
    IF start + 4 > Len(data) THEN ReturnedValue(None)
    ELSE LET len == u32_from_le_bytes(data[start + 1], data[start + 2],
                                      data[start + 3], data[start + 4])
             str_start == start + 4
             str_end == overflowing_add(usize(str_start), len)
         IN IF str_end.overflow /\ overflow_checks THEN Panicked
            ELSE IF Greater(str_end.value, usize(Len(data))) THEN ReturnedValue(None)
            ELSE IF AsIndex(str_end.value) < str_start THEN Panicked
            ELSE LET string == from_utf8(SubSeq(data, str_start + 1,
                                                AsIndex(str_end.value)))
                 IN ReturnedValue(IF string # None
                             THEN Some(<<string[1], AsIndex(str_end.value)>>)
                             ELSE None)

\* What the call returns to the decoder.
extract_string_from_data(data, start) == ExtractString(data, start, TRUE).value

\* extract_metadata_from_instruction (pumpfun.rs lines 88-128): name and symbol
\* when both strings are read, every field None otherwise.
extract_metadata_from_instruction(data) ==
    IF Len(data) < 8 THEN NoMetadata
    ELSE LET first == extract_string_from_data(data, 8)
         IN IF first = None THEN NoMetadata
            ELSE LET second == extract_string_from_data(data, AdvanceCursor(8, first[1][2]))
                 IN IF second = None THEN NoMetadata
                    ELSE [NoMetadata EXCEPT !.name = Some(first[1][1]),
                                            !.symbol = Some(second[1][1])]

\* extract_metadata_from_meteora_dbc_instruction (meteora.rs lines 114-154).
extract_metadata_from_meteora_dbc_instruction(data) ==
    IF Len(data) < 8 THEN NoMetadata
    ELSE LET first == extract_string_from_data(data, 8)
         IN IF first = None THEN NoMetadata
            ELSE LET second == extract_string_from_data(data, AdvanceCursor(8, first[1][2]))
                 IN IF second = None THEN NoMetadata
                    ELSE [NoMetadata EXCEPT !.name = Some(first[1][1]),
                                            !.symbol = Some(second[1][1])]

\* extract_token_launch (pumpfun.rs lines 57-85): the mint is the account at the
\* index found at position 0 of the instruction's accounts, the creator the
\* first account of the transaction; None when either lookup of the mint fails.
extract_token_launch(transaction, instruction) ==
    LET mint_idx == Get(instruction.accounts, 0)
    IN IF mint_idx = None THEN None
       ELSE LET mint_address == Get(transaction.accounts, mint_idx[1])
            IN IF mint_address = None THEN None
               ELSE Some([launchpad |-> "Pumpfun",
                          token_address |-> mint_address[1],
                          creator |-> Get(transaction.accounts, 0),
                          signature |-> transaction.signature,
                          slot |-> transaction.slot,
                          timestamp |-> transaction.received_time,
                          metadata |-> extract_metadata_from_instruction(instruction.data)])

\* An extraction that gives up when the creator is not found.
CreatorRequired(creator, token_launch) ==
    IF creator = None THEN None ELSE Some(token_launch)
\* meteora.rs lines 88-97 and 106: the creator is an Option<String> stored in
\* the launch as it is, and the launch is returned.
CreatorOptional(creator, token_launch) == Some(token_launch)

\* extract_token_launch_meteora_dbc (meteora.rs lines 78-111): the mint through
\* position 3 of the instruction's accounts, the creator through position 2.
extract_token_launch_meteora_dbc(transaction, instruction) ==
    LET mint_idx == Get(instruction.accounts, 3)
    IN IF mint_idx = None THEN None
       ELSE LET mint_address == Get(transaction.accounts, mint_idx[1])
            IN IF mint_address = None THEN None
               ELSE LET idx == Get(instruction.accounts, 2)
                        creator == IF idx = None THEN None
                                   ELSE Get(transaction.accounts, idx[1])
                    IN CreatorOptional(creator,
                            [launchpad |-> "Meteora",
                             token_address |-> mint_address[1],
                             creator |-> creator,
                             signature |-> transaction.signature,
                             slot |-> transaction.slot,
                             timestamp |-> transaction.received_time,
                             metadata |-> extract_metadata_from_meteora_dbc_instruction(
                                              instruction.data)])

\* A test that lets every payload through to the comparison.
LongEnoughAlways(data) == TRUE
\* instr.data.len() >= 8 (pumpfun.rs line 37, meteora.rs line 42).
LongEnough(data) == Len(data) >= 8

\* A test that lets the instructions of every program through.
AnyProgram(instr, ids) == TRUE
\* instr.program_id == self.program_id (pumpfun.rs line 36) and
\* self.program_ids.contains(&instr.program_id) (meteora.rs line 42).
OwnProgram(instr, ids) == instr.program_id \in ids

\* The condition of pumpfun.rs lines 36-38, evaluated left to right: "panic" is
\* the slice data[0..8] taken of a shorter payload.
PumpfunMatch(instr) ==
    IF ~OwnProgram(instr, {PumpfunProgramId}) THEN "no"
    ELSE IF ~LongEnough(instr.data) THEN "no"
    ELSE IF Len(instr.data) < 8 THEN "panic"
    ELSE IF SubSeq(instr.data, 1, 8) = PumpfunCreate THEN "yes"
    ELSE "no"

\* The conditions of meteora.rs lines 42-57.
MeteoraMatch(instr) ==
    IF ~OwnProgram(instr, get_program_ids(1)) THEN "no"
    ELSE IF ~LongEnough(instr.data) THEN "no"
    ELSE IF Len(instr.data) < 8 THEN "panic"
    ELSE IF SubSeq(instr.data, 1, 8) = MeteoraInitSplToken THEN "yes"
    ELSE IF SubSeq(instr.data, 1, 8) = MeteoraInitToken2022 THEN "yes"
    ELSE "no"

\* A loop that visits the instructions from the last to the first.
InstructionOrderReversed(n) == [k \in 1..n |-> n + 1 - k]
\* for instr in &transaction.instructions (pumpfun.rs line 35, meteora.rs line
\* 41): the positions in the order the loop visits them.
InstructionOrder(n) == [k \in 1..n |-> k]

\* The values parse_transaction returns; from is the position of the instruction
\* the result was built from (0 for none).
NotRelevantResult == [kind |-> "Ok", results |-> <<[variant |-> "NotRelevant"]>>, from |-> 0]
LaunchResult(launch, k) ==
    [kind |-> "Ok", results |-> <<[variant |-> "TokenLaunch", launch |-> launch]>>, from |-> k]
PanicResult(k) == [kind |-> "panic", results |-> <<>>, from |-> k]

\* PumpfunParser::parse_transaction (pumpfun.rs lines 28-52) over the positions
\* still to visit: the first create instruction whose launch is extracted ends
\* the loop; NotRelevant after the last instruction.
RECURSIVE PumpfunScan(_, _)
PumpfunScan(transaction, order) ==
    IF order = <<>> THEN NotRelevantResult
    ELSE LET instr == transaction.instructions[Head(order)]
             m == PumpfunMatch(instr)
         IN IF m = "panic" THEN PanicResult(Head(order))
            ELSE IF m = "yes" /\ extract_token_launch(transaction, instr) # None
            THEN LaunchResult(extract_token_launch(transaction, instr)[1], Head(order))
            ELSE PumpfunScan(transaction, Tail(order))

pumpfun_parse_transaction(transaction) ==
    PumpfunScan(transaction, InstructionOrder(Len(transaction.instructions)))

\* MeteoraParser::parse_transaction (meteora.rs lines 32-73).
RECURSIVE MeteoraScan(_, _)
MeteoraScan(transaction, order) ==
    IF order = <<>> THEN NotRelevantResult
    ELSE LET instr == transaction.instructions[Head(order)]
             m == MeteoraMatch(instr)
         IN IF m = "panic" THEN PanicResult(Head(order))
            ELSE IF m = "yes" /\ extract_token_launch_meteora_dbc(transaction, instr) # None
            THEN LaunchResult(extract_token_launch_meteora_dbc(transaction, instr)[1],
                              Head(order))
            ELSE MeteoraScan(transaction, Tail(order))

meteora_parse_transaction(transaction) ==
    MeteoraScan(transaction, InstructionOrder(Len(transaction.instructions)))

\* ------------------------------------------------------------------ bounds
\* Largest number of instructions of a transaction handed to a decoder.
MaxScanInstructions == 2
\* Largest number of length-prefixed fields after the discriminator.
MaxFields == 2

\* ------------------------------------------------------------------ inputs
AccountKeys == <<"MintA", "MintB">>

\* Payloads for the scan: two that are one byte short of a discriminator, and
\* the three discriminators.
ScanPayloads ==
    {SubSeq(PumpfunCreate, 1, 7), SubSeq(MeteoraInitSplToken, 1, 7),
     PumpfunCreate, MeteoraInitSplToken, MeteoraInitToken2022}

\* Account indices of an instruction: none, all pointing at the first account,
\* all pointing at the second.
ScanAccountLists == {<<>>, <<0, 0, 0, 0>>, <<1, 1, 1, 1>>}

ScanInstructions ==
    [program_id : ProgramIds, accounts : ScanAccountLists, data : ScanPayloads]

\* QueuedTransaction (queue.rs lines 9-15).
QueuedTransaction(accounts, instructions) ==
    [signature |-> 1, slot |-> 1, received_time |-> 1,
     accounts |-> accounts, instructions |-> instructions]

\* Transactions of one or two accounts and at most MaxScanInstructions instructions.
ScanTransactions ==
    {QueuedTransaction(SubSeq(AccountKeys, 1, n), instructions) :
        n \in 1..Len(AccountKeys),
        instructions \in SeqsUpTo(ScanInstructions, MaxScanInstructions)}

\* A 4-byte little-endian length followed by the bytes, as Borsh writes a string.
BorshString(bytes) ==
    <<Len(bytes) % 256, (Len(bytes) \div 256) % 256, 0, 0>> \o bytes

\* What follows the discriminator, piece by piece: well-formed strings ("PUMP",
\* "PMP", "", "e" with an acute accent), two lengths that run past the end
\* (9 and 2^30), an unfinished length, and strings that are not UTF-8 (a byte that is never
\* valid, a lead byte without continuation, an overlong form, a surrogate).
FieldChunks ==
    {BorshString(<<80, 85, 77, 80>>), BorshString(<<80, 77, 80>>),
     BorshString(<<>>), BorshString(<<195, 169>>),
     <<9, 0, 0, 0, 80>>, <<0, 0, 0, 64>>, <<4, 0>>,
     BorshString(<<255>>), BorshString(<<195>>), BorshString(<<192, 128>>),
     BorshString(<<237, 160, 128>>)}

RECURSIVE Concat(_)
Concat(chunks) == IF chunks = <<>> THEN <<>> ELSE Head(chunks) \o Concat(Tail(chunks))

FieldPayloads ==
    {d \o Concat(chunks) :
        d \in {PumpfunCreate, MeteoraInitSplToken, MeteoraInitToken2022},
        chunks \in SeqsUpTo(FieldChunks, MaxFields)}

\* Transactions of one instruction of a decoder's program whose mint resolves
\* for both decoders.
FieldTransactions ==
    {QueuedTransaction(AccountKeys,
                       <<[program_id |-> id, accounts |-> <<1, 0, 0, 1>>, data |-> d]>>) :
        id \in {PumpfunProgramId, MeteoraProgramId}, d \in FieldPayloads}

DecoderUnchangedRest == UNCHANGED <<qvars_but_pc, pc, cvars, mvars, rmq, reg, amqp>>

\* parser.parse_transaction(transaction) with the Pumpfun decoder.
ParsePumpfun ==
    /\ parsed = NoParsed
    /\ parsed' = [parser |-> "Pumpfun", outcome |-> pumpfun_parse_transaction(tx)]
    /\ DecoderUnchangedRest

\* parser.parse_transaction(transaction) with the Meteora decoder.
ParseMeteora ==
    /\ parsed = NoParsed
    /\ parsed' = [parser |-> "Meteora", outcome |-> meteora_parse_transaction(tx)]
    /\ DecoderUnchangedRest

\* ---------------------------------------------- the decoder specifications
DecoderInitWith(transactions) ==
    /\ queue = <<>>
    /\ max_size = ClientQueueSize
    /\ lock = NoTask
    /\ pc = [t \in Tasks |-> "idle"]
    /\ local = [t \in Tasks |-> NoLocals]
    /\ pushed = 0
    /\ delivered = <<>>
    /\ evicted = <<>>
    /\ ClientIdle
    /\ tx \in transactions
    /\ mgr = NoMgr
    /\ obs = NoObs
    /\ disp = NoDisp
    /\ DecoderIdle
    /\ ConsumerIdle
    /\ RegistryIdle
    /\ AmqpIdle

DecoderNext ==
    \/ ParsePumpfun
    \/ ParseMeteora

\* A decoder is called with any transaction of several instructions.
ScanInit == DecoderInitWith(ScanTransactions)
SpecScan == ScanInit /\ [][DecoderNext]_vars

\* A decoder is called with any create instruction and what follows its
\* discriminator.
FieldsInit == DecoderInitWith(FieldTransactions)
SpecFields == FieldsInit /\ [][DecoderNext]_vars

\* ---------------------------------------------- claims about the decoders
\* A decoder has returned.
Parsed == parsed # NoParsed

\* What the claims say of a decoder: its program id, the discriminators it
\* knows, and the position of the token address among an instruction's accounts.
ProgramIdOf(parser) == IF parser = "Pumpfun" THEN PumpfunProgramId ELSE MeteoraProgramId
DiscriminatorsOf(parser) ==
    IF parser = "Pumpfun" THEN {PumpfunCreate}
    ELSE {MeteoraInitSplToken, MeteoraInitToken2022}
MintPositionOf(parser) == IF parser = "Pumpfun" THEN 0 ELSE 3

\* Instruction k of tx carries the decoder's program id and a discriminator it knows.
IsCreate(parser, k) ==
    /\ tx.instructions[k].program_id = ProgramIdOf(parser)
    /\ Len(tx.instructions[k].data) >= 8
    /\ SubSeq(tx.instructions[k].data, 1, 8) \in DiscriminatorsOf(parser)

\* Both lookups of the token address of instruction k are in range.
MintResolves(parser, k) ==
    /\ MintPositionOf(parser) < Len(tx.instructions[k].accounts)
    /\ tx.instructions[k].accounts[MintPositionOf(parser) + 1] < Len(tx.accounts)

\* The account both lookups lead to.
MintOf(parser, k) ==
    tx.accounts[tx.instructions[k].accounts[MintPositionOf(parser) + 1] + 1]

\* The decoder returned exactly one result, of the given variant.
Returns(variant) ==
    /\ parsed.outcome.kind = "Ok"
    /\ Len(parsed.outcome.results) = 1
    /\ parsed.outcome.results[1].variant = variant

\* C12: an instruction whose payload is shorter than 8 bytes never matches, for
\* both decoders: a transaction whose payloads are all shorter than 8 bytes
\* yields the single result NotRelevant, without error or out-of-bounds read.
C12_ShortPayloadNeverMatches ==
    Parsed =>
        /\ parsed.outcome.kind = "Ok"
        /\ parsed.outcome.from # 0
              => Len(tx.instructions[parsed.outcome.from].data) >= 8
        /\ (\A k \in 1..Len(tx.instructions) : Len(tx.instructions[k].data) < 8)
              => parsed.outcome = NotRelevantResult

\* C12 witness: the Meteora decoder has returned for a transaction with the
\* most instructions, all of its program and all one byte short of a discriminator.
C12_Witness ==
    /\ Parsed
    /\ parsed.parser = "Meteora"
    /\ Len(tx.instructions) = MaxScanInstructions
    /\ \A k \in 1..Len(tx.instructions) :
          /\ tx.instructions[k].program_id = MeteoraProgramId
          /\ tx.instructions[k].data = SubSeq(MeteoraInitSplToken, 1, 7)

\* C13: when the token-address lookup of a create instruction is out of range
\* at either level, the decoder builds no TokenLaunch from that instruction and
\* reports no error.
C13_OutOfRangeMintIsNoLaunch ==
    Parsed =>
        /\ parsed.outcome.kind = "Ok"
        /\ \A k \in 1..Len(tx.instructions) :
              (IsCreate(parsed.parser, k) /\ ~MintResolves(parsed.parser, k))
                  => parsed.outcome.from # k
        /\ (\A k \in 1..Len(tx.instructions) :
                IsCreate(parsed.parser, k) => ~MintResolves(parsed.parser, k))
              => Returns("NotRelevant")

\* C13 witness: the Pumpfun decoder has returned for two create instructions,
\* the first without accounts, the second pointing past the only account.
C13_Witness ==
    /\ Parsed
    /\ parsed.parser = "Pumpfun"
    /\ Len(tx.accounts) = 1
    /\ Len(tx.instructions) = 2
    /\ IsCreate("Pumpfun", 1) /\ tx.instructions[1].accounts = <<>>
    /\ IsCreate("Pumpfun", 2) /\ tx.instructions[2].accounts = <<1, 1, 1, 1>>

\* The length declared by the 4 bytes at position start (counted from 0), and
\* the bytes of the string that follows them.
DeclaredAt(data, start) ==
    LET len == u32_from_le_bytes(data[start + 1], data[start + 2],
                                 data[start + 3], data[start + 4])
    IN IF \E k \in 3..usize_LIMBS : len[k] # 0 THEN 64 * 16777216
       ELSE IF len[2] >= 16384 THEN 64 * 16777216
       ELSE AsIndex(len)
StringBytesAt(data, start) ==
    SubSeq(data, start + 5, start + 4 + DeclaredAt(data, start))

\* Decoding the length-prefixed string at position start violates the format:
\* fewer than 4 bytes are left, the declared length runs past the end of the
\* payload, or the bytes are not UTF-8.
PrefixCut(data, start) == Len(data) - start < 4
RunsPastEnd(data, start) ==
    ~PrefixCut(data, start) /\ DeclaredAt(data, start) > Len(data) - start - 4
NotUtf8(data, start) ==
    /\ ~PrefixCut(data, start)
    /\ ~RunsPastEnd(data, start)
    /\ Utf8Decode(StringBytesAt(data, start), <<>>) = None
StringViolation(data, start) ==
    PrefixCut(data, start) \/ RunsPastEnd(data, start) \/ NotUtf8(data, start)

\* The payload of the only instruction of tx, and where its strings start.
Payload == tx.instructions[1].data
NameStart == Len(PumpfunCreate)
SymbolStart == NameStart + 4 + DeclaredAt(Payload, NameStart)
NameViolation == StringViolation(Payload, NameStart)
SymbolViolation == ~NameViolation /\ StringViolation(Payload, SymbolStart)

\* The launch of the one result returned.
Launch == parsed.outcome.results[1].launch

\* C14: for a create instruction whose token address resolves, a violation while
\* decoding a length-prefixed string still yields a TokenLaunch, with that string
\* field absent; the decode neither fails nor returns NotRelevant.
C14_StringViolationLeavesFieldAbsent ==
    (Parsed /\ IsCreate(parsed.parser, 1) /\ MintResolves(parsed.parser, 1))
        => /\ Returns("TokenLaunch")
           /\ Launch.token_address = MintOf(parsed.parser, 1)
           /\ NameViolation => Launch.metadata.name = None
           /\ SymbolViolation => Launch.metadata.symbol = None

\* C14 witness: the Meteora decoder has returned a launch for a create
\* instruction whose name is well-formed and whose symbol is not UTF-8.
C14_Witness ==
    /\ Parsed
    /\ parsed.parser = "Meteora"
    /\ IsCreate("Meteora", 1)
    /\ ~NameViolation
    /\ NotUtf8(Payload, SymbolStart)
    /\ Returns("TokenLaunch")

\* C15: metadata fields are decoded independently: when the name of a create
\* instruction decodes and the symbol does not, the TokenLaunch carries the
\* decoded name and an absent symbol.
C15_NameKeptWhenSymbolFails ==
    (Parsed /\ IsCreate(parsed.parser, 1) /\ MintResolves(parsed.parser, 1)
     /\ SymbolViolation)
        => /\ Returns("TokenLaunch")
           /\ Launch.metadata.name = Utf8Decode(StringBytesAt(Payload, NameStart), <<>>)
           /\ Launch.metadata.symbol = None

\* C17: the Pumpfun decoder, given the create discriminator followed by the
\* length 4, "PUMP", the length 3 and "PMP" in an instruction of its program whose
\* account index at position 0 resolves, returns exactly one TokenLaunch with
\* launchpad Pumpfun, name "PUMP", symbol "PMP" and that account as token address.
PumpScenario ==
    /\ Parsed
    /\ parsed.parser = "Pumpfun"
    /\ tx.instructions[1].program_id = "6EF8rrecthR5Dkzon8Nwu78hRvfCKubJ14M5uBEwF6P"
    /\ Payload = <<24, 30, 200, 40, 5, 28, 7, 119,
                   4, 0, 0, 0, 80, 85, 77, 80,
                   3, 0, 0, 0, 80, 77, 80>>
    /\ tx.instructions[1].accounts[1] < Len(tx.accounts)

C17_PumpScenario ==
    PumpScenario
        => /\ Returns("TokenLaunch")
           /\ Launch.launchpad = "Pumpfun"
           /\ Launch.metadata.name = Some(<<80, 85, 77, 80>>)
           /\ Launch.metadata.symbol = Some(<<80, 77, 80>>)
           /\ Launch.token_address = tx.accounts[tx.instructions[1].accounts[1] + 1]

\* C17 witness: the scenario has happened.
C17_Witness == PumpScenario /\ Returns("TokenLaunch")

\* The first position of tx, in instruction order, that satisfies P (0 for none).
FirstPosition(P(_)) ==
    LET hits == {k \in 1..Len(tx.instructions) : P(k)}
    IN IF hits = {} THEN 0 ELSE CHOOSE k \in hits : \A j \in hits : k <= j

\* The first create instruction of the decoder that returned, and the first one
\* whose token address resolves.
FirstCreate ==
    LET P(k) == IsCreate(parsed.parser, k) IN FirstPosition(P)
FirstResolvingCreate ==
    LET P(k) == IsCreate(parsed.parser, k) /\ MintResolves(parsed.parser, k)
    IN FirstPosition(P)

\* The decoder returned a one-element result: one TokenLaunch or one NotRelevant.
OneResult == Returns("TokenLaunch") \/ Returns("NotRelevant")

\* C16 as claimed: a decoder returns at most one TokenLaunch, in a one-element
\* result, and the launch is built from the first instruction, in instruction
\* order, that carries the decoder's program id and a known discriminator.
C16_LaunchFromFirstCreate ==
    Parsed =>
        /\ OneResult
        /\ Returns("TokenLaunch")
              => /\ parsed.outcome.from = FirstCreate
                 /\ Launch.token_address = MintOf(parsed.parser, FirstCreate)

\* C16 as amended: a decoder returns at most one TokenLaunch, in a one-element
\* result, and the launch is built from the first instruction, in instruction
\* order, that carries the decoder's program id and a known discriminator and
\* whose token address resolves.
C16_LaunchFromFirstResolvingCreate ==
    Parsed =>
        /\ OneResult
        /\ Returns("TokenLaunch")
              => /\ parsed.outcome.from = FirstResolvingCreate
                 /\ parsed.outcome.from # 0
                 /\ Launch.token_address = MintOf(parsed.parser, FirstResolvingCreate)

\* C16 witness: the Meteora decoder has returned the launch of the first of two
\* create instructions whose token addresses resolve to different accounts.
C16_Witness ==
    /\ Parsed
    /\ parsed.parser = "Meteora"
    /\ Len(tx.instructions) = 2
    /\ IsCreate("Meteora", 1) /\ MintResolves("Meteora", 1)
    /\ IsCreate("Meteora", 2) /\ MintResolves("Meteora", 2)
    /\ MintOf("Meteora", 1) # MintOf("Meteora", 2)
    /\ Returns("TokenLaunch")
    /\ Launch.token_address = MintOf("Meteora", 1)

\* ========================================================= RabbitMQConsumer
\* ------------------------------------------------------------------ bounds
\* Number of items the broker stream yields before it ends.
MaxDeliveries == 3

\* The task tokio::spawn starts for consume_messages (consumer.rs line 124).
ConsumeTask == "consumer2"

\* The fields of TokenLaunch (launchpad_parser.rs lines 12-20); creator is an
\* Option, which serde reads as None when the key is missing.
TokenLaunchKeys ==
    {"launchpad", "token_address", "creator", "signature", "slot", "timestamp", "metadata"}
RequiredKeys == TokenLaunchKeys \ {"creator"}

\* Payloads of a delivery: bytes that are not JSON, and JSON objects with all
\* keys of a TokenLaunch, without creator, and without token_address.
Payloads ==
    {[json |-> FALSE, keys |-> {}],
     [json |-> TRUE, keys |-> TokenLaunchKeys],
     [json |-> TRUE, keys |-> TokenLaunchKeys \ {"creator"}],
     [json |-> TRUE, keys |-> TokenLaunchKeys \ {"token_address"}]}

\* serde_json::from_slice::<TokenLaunch>(payload), line 141: a TokenLaunch when
\* the payload is a JSON object with every required key, Err (None) otherwise.
from_slice(payload) ==
    IF payload.json /\ RequiredKeys \subseteq payload.keys
    THEN Some([token_address |-> "present",
               creator |-> IF "creator" \in payload.keys THEN Some("present") ELSE None])
    ELSE None

\* What consumer.next() yields (lines 136-137, 164): a delivery or a transport
\* error; the streams of at most MaxDeliveries items.
StreamItems ==
    {[kind |-> "Ok", data |-> d] : d \in Payloads} \cup {[kind |-> "Err", data |-> <<>>]}
Streams == SeqsUpTo(StreamItems, MaxDeliveries)

\* process_token_launch returns a Result (line 176) and the loop provides for
\* both variants (lines 146-148); the present body only logs and returns Ok,
\* in place of the business logic, so the result is an input of the loop.
HandlerResults == {"Ok", "Err"}
\* delivery.ack(..) returns a Result (lines 151, 158).
AckResults == {"Ok", "Err"}

\* tokio::time::sleep(Duration::from_secs(1)), line 167.
ReceiveErrorPauseSecs == 1

\* A loop that acknowledges a launch without handing it to the handler.
OnLaunchAckOnly == "cm_ack"
\* Lines 142-148: a deserialized launch goes to process_token_launch.
OnLaunch == "cm_handle"

\* A loop that ends after a malformed delivery.
AfterMalformedEnd == "cm_end"
\* Lines 155-161: after the malformed delivery the while loop takes the next item.
AfterMalformed == "cm_next"

ConsumerUnchangedRest == UNCHANGED <<qvars_but_pc, cvars, mvars, parsed, reg, amqp>>

\* while let Some(delivery) = consumer.next().await (lines 136-138, 164-165,
\* 172-173): the next item of the stream; None ends the loop.
NextDelivery ==
    /\ pc[ConsumeTask] = "cm_next"
    /\ IF rmq.next > Len(rmq.stream)
       THEN /\ pc' = [pc EXCEPT ![ConsumeTask] = "cm_end"]
            /\ UNCHANGED rmq
       ELSE LET item == rmq.stream[rmq.next]
            IN IF item.kind = "Ok"
               THEN /\ rmq' = [rmq EXCEPT
                                  !.next = @ + 1,
                                  !.delivery = Some([tag |-> rmq.next, data |-> item.data])]
                    /\ pc' = [pc EXCEPT ![ConsumeTask] = "cm_deser"]
               ELSE /\ rmq' = [rmq EXCEPT !.next = @ + 1]
                    /\ pc' = [pc EXCEPT ![ConsumeTask] = "cm_sleep"]
    /\ ConsumerUnchangedRest

\* Lines 139-143 and 155-156: the payload is deserialized.
Deserialize ==
    /\ pc[ConsumeTask] = "cm_deser"
    /\ pc' = [pc EXCEPT ![ConsumeTask] =
                 IF from_slice(rmq.delivery[1].data) # None THEN OnLaunch ELSE "cm_ack_bad"]
    /\ UNCHANGED rmq
    /\ ConsumerUnchangedRest

\* Lines 146-150: process_token_launch is called; an Err is logged, and either
\* way the acknowledgment comes next.
ProcessTokenLaunch ==
    /\ pc[ConsumeTask] = "cm_handle"
    /\ \E result \in HandlerResults :
        /\ rmq' = [rmq EXCEPT !.log = Append(@, <<"handle", rmq.delivery[1].tag, result>>)]
        /\ pc' = [pc EXCEPT ![ConsumeTask] = "cm_ack"]
    /\ ConsumerUnchangedRest

\* What delivery.ack(..).await leaves in the log: the attempt, and the error!
\* line of a failed one (lines 151-153, 158-160).
AckAttempt(tag, result) ==
    IF result = "Err" THEN << <<"ack", tag>>, <<"ack_failed", tag>> >>
    ELSE << <<"ack", tag>> >>

\* A loop that acknowledges again after a failed attempt.
AfterAckRetry(result) == IF result = "Err" THEN "cm_ack" ELSE "cm_next"
\* Lines 151-154: whatever ack returned, the arm ends and the while loop takes
\* the next item.
AfterAck(result) == "cm_next"

\* Lines 151-153: the delivery is acknowledged; a failure of the call is logged.
AckDelivery ==
    /\ pc[ConsumeTask] = "cm_ack"
    /\ \E result \in AckResults :
        /\ rmq' = [rmq EXCEPT
                       !.log = @ \o AckAttempt(rmq.delivery[1].tag, result),
                       !.delivery = IF AfterAck(result) = "cm_next" THEN None ELSE @]
        /\ pc' = [pc EXCEPT ![ConsumeTask] = AfterAck(result)]
    /\ ConsumerUnchangedRest

\* Lines 156-160: the malformed delivery is acknowledged.
AckMalformed ==
    /\ pc[ConsumeTask] = "cm_ack_bad"
    /\ \E result \in AckResults :
        rmq' = [rmq EXCEPT !.log = @ \o AckAttempt(rmq.delivery[1].tag, result),
                           !.delivery = None]
    /\ pc' = [pc EXCEPT ![ConsumeTask] = AfterMalformed]
    /\ ConsumerUnchangedRest

\* Lines 165-167: the receive error is logged and the loop sleeps.
ReceiveErrorPause ==
    /\ pc[ConsumeTask] = "cm_sleep"
    /\ rmq' = [rmq EXCEPT !.log = Append(@, <<"sleep", ReceiveErrorPauseSecs>>)]
    /\ pc' = [pc EXCEPT ![ConsumeTask] = "cm_next"]
    /\ ConsumerUnchangedRest

\* ---------------------------------------------- the consumer specification
\* start_consuming has spawned consume_messages on a stream.
ConsumerInit ==
    /\ queue = <<>>
    /\ max_size = ClientQueueSize
    /\ lock = NoTask
    /\ pc = [t \in Tasks |-> IF t = ConsumeTask THEN "cm_next" ELSE "idle"]
    /\ local = [t \in Tasks |-> NoLocals]
    /\ pushed = 0
    /\ delivered = <<>>
    /\ evicted = <<>>
    /\ ClientIdle
    /\ ManagerIdle
    /\ DecoderIdle
    /\ \E stream \in Streams : rmq = [NoRmq EXCEPT !.stream = stream]
    /\ RegistryIdle
    /\ AmqpIdle

ConsumerNext ==
    \/ NextDelivery
    \/ Deserialize
    \/ ProcessTokenLaunch
    \/ AckDelivery
    \/ AckMalformed
    \/ ReceiveErrorPause

SpecConsumer == ConsumerInit /\ [][ConsumerNext]_vars

\* The scheduler runs the consume task whenever it can take a step.
FairSpecConsumer == SpecConsumer /\ WF_vars(ConsumerNext)

\* ------------------------------------------- claims about the consume loop
\* Item d of the stream is a delivery, and its payload deserializes.
IsDelivery(d) == d \in 1..Len(rmq.stream) /\ rmq.stream[d].kind = "Ok"
Deserializes(d) ==
    /\ IsDelivery(d)
    /\ rmq.stream[d].data.json
    /\ {"launchpad", "token_address", "signature", "slot", "timestamp", "metadata"}
           \subseteq rmq.stream[d].data.keys

\* Positions of the log at which delivery d was acknowledged, and at which the
\* handler returned for it (with the given results).
AckedAt(d) == {i \in 1..Len(rmq.log) : rmq.log[i] = <<"ack", d>>}
HandledAt(d, results) ==
    {i \in 1..Len(rmq.log) : \E r \in results : rmq.log[i] = <<"handle", d, r>>}

C19_HandleThenAckThenNext ==
    \A d \in 1..MaxDeliveries :
        /\ (Deserializes(d) /\ AckedAt(d) # {})
              => \A i \in AckedAt(d) : \E j \in HandledAt(d, {"Ok", "Err"}) : j < i
        /\ \A e \in 1..MaxDeliveries :
              (IsDelivery(d) /\ d < e /\ HandledAt(e, {"Ok", "Err"}) # {})
                  => \E i \in AckedAt(d) : \A j \in HandledAt(e, {"Ok", "Err"}) : i < j

\* C19 witness: two launches in a row were each handled and then acknowledged.
C19_Witness ==
    rmq.log = << <<"handle", 1, "Ok">>, <<"ack", 1>>, <<"handle", 2, "Ok">>, <<"ack", 2>> >>

\* Delivery d is malformed and has been acknowledged.
MalformedAcked(d) == IsDelivery(d) /\ ~Deserializes(d) /\ AckedAt(d) # {}

\* Delivery e has been consumed: acknowledged, and handled if it is a launch.
Consumed(e) ==
    /\ AckedAt(e) # {}
    /\ Deserializes(e) => HandledAt(e, {"Ok", "Err"}) # {}

\* C20: a delivery whose payload is not a valid JSON TokenLaunch is acknowledged
\* without the handler being invoked, and every delivery that arrives after it
\* is still consumed and handled.
C20_MalformedDoesNotStall ==
    /\ [](\A d \in 1..MaxDeliveries :
             (IsDelivery(d) /\ ~Deserializes(d)) => HandledAt(d, {"Ok", "Err"}) = {})
    /\ \A d \in 1..MaxDeliveries :
          (rmq.next > d /\ IsDelivery(d) /\ ~Deserializes(d))
              ~> (/\ MalformedAcked(d)
                  /\ \A e \in 1..MaxDeliveries : (d < e /\ IsDelivery(e)) => Consumed(e))

\* C20 witness: a delivery that is not JSON was acknowledged, and the launch
\* that arrived after it was handled and acknowledged.
C20_Witness ==
    /\ IsDelivery(1)
    /\ ~rmq.stream[1].data.json
    /\ rmq.log = << <<"ack", 1>>, <<"handle", 2, "Ok">>, <<"ack", 2>> >>

\* C21: the consume loop never exits except on external cancellation: no event
\* coming from the delivery stream (an error item, a failed acknowledgment, the
\* end of the stream) makes the consume task return, and after a receive error
\* the loop pauses and goes on receiving.
C21_ConsumeLoopNeverReturns ==
    /\ pc[ConsumeTask] # "cm_end"
    /\ pc[ConsumeTask] = "cm_next"
          => \A i \in 1..(rmq.next - 1) :
                rmq.stream[i].kind = "Err"
                    => \E j \in 1..Len(rmq.log) : rmq.log[j] = <<"sleep", ReceiveErrorPauseSecs>>

\* ------------------------------------------- claims about the dispatch order
\* A list of signatures in strictly increasing order, which is the order in
\* which Arrive pushed them.
InPushOrder(s) == \A i, j \in 1..Len(s) : i < j => s[i] < s[j]

\* Every transaction pushed so far, in push order: processed, being processed,
\* waiting in the batch, or waiting in the queue.
Pipeline ==
    disp.processed
    \o (IF InTransaction THEN <<tx.signature>> ELSE <<>>)
    \o Signatures(disp.batch)
    \o Signatures(queue)

\* C24: the sequence of transactions the dispatch loop processes is a subsequence
\* of the sequence pushed, in the same order, without reordering or duplicates;
\* the only pushed transactions missing from it are those push evicted from the
\* front of the queue, each of which was older than everything left in the queue.
C24_ProcessedIsOrderedSubsequence ==
    /\ InPushOrder(Pipeline)
    /\ Range(Pipeline) \cup Range(evicted) = 1..pushed
    /\ Range(Pipeline) \cap Range(evicted) = {}
    /\ \A i \in 1..Len(evicted) : \A k \in 1..Len(queue) : evicted[i] < queue[k].signature

\* C24 witness: with capacity 2, three transactions were pushed before the loop
\* pulled; the first was evicted and the other two were processed in push order.
C24_Witness ==
    /\ max_size = 2
    /\ pushed = 3
    /\ evicted = <<1>>
    /\ disp.processed = <<2, 3>>
    /\ pc[Dispatcher] = "sp_for"

\* ------------------------------------------- claims about the decoder order
\* C26: within one transaction the relevant decoders are invoked in registry
\* order (the Pumpfun decoder, index 0, before the Meteora decoder, index 1),
\* whatever the order of their program ids in the instruction list, and each
\* relevant decoder is invoked exactly once.
C26_DecodersRunInRegistryOrder ==
    Returned =>
        /\ \A i, j \in 1..Len(obs.invoked) : i < j => obs.invoked[i] < obs.invoked[j]
        /\ Range(obs.invoked) = Range(RelevantParsers(tx.instructions, <<>>))

\* ------------------------------------------- claims about account resolution
\* The two-level lookup for instruction k of tx: the value at a position of the
\* instruction's account indices, used as an index into tx.accounts; None when
\* either index is out of range.
TwoLevel(k, position) ==
    IF position >= Len(tx.instructions[k].accounts) THEN None
    ELSE IF tx.instructions[k].accounts[position + 1] >= Len(tx.accounts) THEN None
    ELSE Some(tx.accounts[tx.instructions[k].accounts[position + 1] + 1])

\* C25: for each decoder, the token address and the creator of a TokenLaunch both
\* come from the two-level lookup: a position of the instruction's account indices
\* gives the index into tx.accounts; neither is read from tx.accounts at a fixed
\* position directly.
C25_AddressesThroughAccountIndices ==
    (Parsed /\ Returns("TokenLaunch"))
        => /\ Some(Launch.token_address)
                = TwoLevel(parsed.outcome.from, MintPositionOf(parsed.parser))
           /\ \E position \in 0..3 :
                 Launch.creator = TwoLevel(parsed.outcome.from, position)

\* ================================================== the registry of decoders
\* What the decoders handed to the registry may declare: each of the ParserCount
\* decoders returns one or both of the two program ids from get_program_ids,
\* so that two decoders may declare the same id.
RegistryDeclarations ==
    [1..ParserCount -> (SUBSET {PumpfunProgramId, MeteoraProgramId}) \ {{}}]

\* ParserManager::new, lines 18-32, for decoders that declare what declared
\* lists (declared[i + 1] is get_program_ids of parsers[i]): decoder by decoder,
\* program_id_to_parser.insert(program_id, parser_index) for each declared id;
\* HashMap::insert replaces the value of a key that is already present.
RECURSIVE Register(_, _, _)
Register(declared, parser_index, map) ==
    IF parser_index >= Len(declared) THEN map
    ELSE Register(declared, parser_index + 1,
            [id \in DOMAIN map \cup declared[parser_index + 1] |->
                IF id \in declared[parser_index + 1] THEN parser_index ELSE map[id]])

\* process_transaction, lines 72-79, reading the program_id_to_parser of reg: the
\* distinct decoder indices of the instructions' program ids, in order of first
\* appearance.
RECURSIVE RelevantParsersIn(_, _, _)
RelevantParsersIn(map, instructions, relevant_parsers) ==
    IF instructions = <<>> THEN relevant_parsers
    ELSE LET program_id == Head(instructions).program_id
         IN IF program_id \in DOMAIN map /\ map[program_id] \notin Range(relevant_parsers)
            THEN RelevantParsersIn(map, Tail(instructions),
                                   Append(relevant_parsers, map[program_id]))
            ELSE RelevantParsersIn(map, Tail(instructions), relevant_parsers)

\* process_transaction, lines 70-83, of a manager whose registry is reg.
ScanRegistry ==
    ScanWith(RelevantParsersIn(reg.program_id_to_parser, tx.instructions, <<>>))

\* A registry built from any declarations, then process_transaction called with
\* any transaction.
RegistryInit ==
    /\ queue = <<>>
    /\ max_size = ClientQueueSize
    /\ lock = NoTask
    /\ pc = [t \in Tasks |-> IF t = Dispatcher THEN "pt_scan" ELSE "idle"]
    /\ local = [t \in Tasks |-> NoLocals]
    /\ pushed = 0
    /\ delivered = <<>>
    /\ evicted = <<>>
    /\ ClientIdle
    /\ tx \in Transactions
    /\ mgr = NoMgr
    /\ obs = NoObs
    /\ disp = NoDisp
    /\ DecoderIdle
    /\ ConsumerIdle
    /\ \E declared \in RegistryDeclarations :
          reg = [declared |-> declared,
                 program_id_to_parser |-> Register(declared, 0, <<>>)]
    /\ AmqpIdle

RegistryNext ==
    \/ ScanRegistry
    \/ InvokeParser
    \/ HandleResult

SpecRegistry == RegistryInit /\ [][RegistryNext]_vars

\* ---------------------------------------------- claims about the registry
\* The decoders that declare a program id.
Claiming(program_id) ==
    {i \in 0..(Len(reg.declared) - 1) : program_id \in reg.declared[i + 1]}

FieldName ==
    [ launchpad |-> <<108, 97, 117, 110, 99, 104, 112, 97, 100>>,
      token_address |-> <<116, 111, 107, 101, 110, 95, 97, 100, 100, 114, 101, 115, 115>>,
      creator |-> <<99, 114, 101, 97, 116, 111, 114>>,
      signature |-> <<115, 105, 103, 110, 97, 116, 117, 114, 101>>,
      slot |-> <<115, 108, 111, 116>>,
      timestamp |-> <<116, 105, 109, 101, 115, 116, 97, 109, 112>>,
      metadata |-> <<109, 101, 116, 97, 100, 97, 116, 97>>,
      name |-> <<110, 97, 109, 101>>,
      symbol |-> <<115, 121, 109, 98, 111, 108>>,
      uri |-> <<117, 114, 105>>,
      initial_supply |-> <<105, 110, 105, 116, 105, 97, 108, 95, 115, 117, 112, 112, 108, 121>>,
      mint_authority |-> <<109, 105, 110, 116, 95, 97, 117, 116, 104, 111, 114, 105, 116, 121>> ]
\* The names of the variants of Launchpad, as serde writes them.
VariantName ==
    [ Pumpfun |-> <<80, 117, 109, 112, 102, 117, 110>>,
      Meteora |-> <<77, 101, 116, 101, 111, 114, 97>> ]
\* null
JsonNull == <<110, 117, 108, 108>>

\* ---------------------------------------------------------- serde_json::to_vec
\* str::as_bytes: the UTF-8 encoding of a String's code points.
RECURSIVE Utf8Encode(_)
Utf8Encode(chars) ==
    IF chars = <<>> THEN <<>>
    ELSE LET c == Head(chars)
         IN (IF c < 128 THEN <<c>>
             ELSE IF c < 2048 THEN <<192 + (c \div 64), 128 + (c % 64)>>
             ELSE IF c < 65536
                  THEN <<224 + (c \div 4096), 128 + ((c \div 64) % 64), 128 + (c % 64)>>
             ELSE <<240 + (c \div 262144), 128 + ((c \div 4096) % 64),
                    128 + ((c \div 64) % 64), 128 + (c % 64)>>)
            \o Utf8Encode(Tail(chars))

\* A hexadecimal digit in lower case, as serde_json writes \u00XX.
HexDigit(n) == IF n < 10 THEN 48 + n ELSE 87 + n

\* A writer that escapes nothing.
RawByte(b) == <<b>>
\* serde_json's ESCAPE table applied to one byte: the quote and the backslash
\* get a backslash, the control bytes their short form (\b \t \n \f \r) or
\* \u00XX, and every other byte is written as it is.
EscapeByte(b) ==
    IF b = 34 THEN <<92, 34>>
    ELSE IF b = 92 THEN <<92, 92>>
    ELSE IF b = 8 THEN <<92, 98>>
    ELSE IF b = 9 THEN <<92, 116>>
    ELSE IF b = 10 THEN <<92, 110>>
    ELSE IF b = 12 THEN <<92, 102>>
    ELSE IF b = 13 THEN <<92, 114>>
    ELSE IF b < 32 THEN <<92, 117, 48, 48, HexDigit(b \div 16), HexDigit(b % 16)>>
    ELSE <<b>>

RECURSIVE EscapeBytes(_)
EscapeBytes(bytes) ==
    IF bytes = <<>> THEN <<>> ELSE EscapeByte(Head(bytes)) \o EscapeBytes(Tail(bytes))

\* Serializer::serialize_str: the escaped bytes between two quotes.
serialize_str(chars) == <<34>> \o EscapeBytes(Utf8Encode(chars)) \o <<34>>

\* The decimal digits of n, most significant first (itoa).
RECURSIVE Digits(_)
Digits(n) == IF n < 10 THEN <<48 + n>> ELSE Append(Digits(n \div 10), 48 + (n % 10))

\* Serializer::serialize_u64.
serialize_u64(n) == Digits(n)

\* The digits of n in a field of the given width, padded with zeros on the left.
RECURSIVE Padded(_, _)
Padded(n, width) ==
    IF width = 0 THEN <<>> ELSE Append(Padded(n \div 10, width - 1), 48 + (n % 10))

\* Option<T>: null for None, the value for Some.
serialize_option(option, serialize(_)) ==
    IF option = None THEN JsonNull ELSE serialize(option[1])

\* chrono's Serialize for DateTime<Utc>: the RFC 3339 text with the fraction of
\* SecondsFormat::AutoSi (none, 3, 6 or 9 digits, the fewest that lose nothing)
\* and Z for the offset; a leap second is second 60 with the fraction above 10^9.
FractionDigits(frac) ==
    IF frac = 0 THEN <<>>
    ELSE IF frac % 1000000 = 0 THEN <<46>> \o Padded(frac \div 1000000, 3)
    ELSE IF frac % 1000 = 0 THEN <<46>> \o Padded(frac \div 1000, 6)
    ELSE <<46>> \o Padded(frac, 9)

Rfc3339(t) ==
    LET leap == t.frac >= 1000000000
        sec == (t.secs % 60) + (IF leap THEN 1 ELSE 0)
        nano == IF leap THEN t.frac - 1000000000 ELSE t.frac
    IN Padded(t.date[1], 4) \o <<45>> \o Padded(t.date[2], 2) \o <<45>>
       \o Padded(t.date[3], 2) \o <<84>>
       \o Padded(t.secs \div 3600, 2) \o <<58>> \o Padded((t.secs \div 60) % 60, 2)
       \o <<58>> \o Padded(sec, 2) \o FractionDigits(nano) \o <<90>>

serialize_datetime(t) == <<34>> \o Rfc3339(t) \o <<34>>

\* A unit variant of LaunchpadType is written as the string of its name.
serialize_launchpad(launchpad) ==
    serialize_str(IF launchpad = "Pumpfun" THEN VariantName.Pumpfun ELSE VariantName.Meteora)

\* One member of an object: "key":value.
Member(key, value) == <<34>> \o key \o <<34, 58>> \o value

\* #[derive(Serialize)] for LaunchMetadata: the fields in declaration order.
serialize_metadata(metadata) ==
    <<123>>
    \o Member(FieldName.name, serialize_option(metadata.name, serialize_str)) \o <<44>>
    \o Member(FieldName.symbol, serialize_option(metadata.symbol, serialize_str)) \o <<44>>
    \o Member(FieldName.uri, serialize_option(metadata.uri, serialize_str)) \o <<44>>
    \o Member(FieldName.initial_supply,
              serialize_option(metadata.initial_supply, serialize_u64)) \o <<44>>
    \o Member(FieldName.mint_authority, serialize_option(metadata.mint_authority, serialize_str))
    \o <<125>>

\* serde_json::to_vec(token_launch) (producer.rs lines 111-112): the JSON text of
\* #[derive(Serialize)] for TokenLaunch, in the compact format.
to_vec(token_launch) ==
    <<123>>
    \o Member(FieldName.launchpad, serialize_launchpad(token_launch.launchpad)) \o <<44>>
    \o Member(FieldName.token_address, serialize_str(token_launch.token_address)) \o <<44>>
    \o Member(FieldName.creator, serialize_option(token_launch.creator, serialize_str)) \o <<44>>
    \o Member(FieldName.signature, serialize_str(token_launch.signature)) \o <<44>>
    \o Member(FieldName.slot, serialize_u64(token_launch.slot)) \o <<44>>
    \o Member(FieldName.timestamp, serialize_datetime(token_launch.timestamp)) \o <<44>>
    \o Member(FieldName.metadata, serialize_metadata(token_launch.metadata))
    \o <<125>>

\* ------------------------------------------------------ serde_json::from_slice
\* What a parsing step returns: Err, or the value read and the position after it.
ParseErr == [ok |-> FALSE, v |-> <<>>, i |-> 0]
ParseOk(v, i) == [ok |-> TRUE, v |-> v, i |-> i]

\* The byte at position i of the input, -1 past its end.
At(b, i) == IF i >= 1 /\ i <= Len(b) THEN b[i] ELSE -1

\* Whitespace between tokens: space, tab, line feed, carriage return.
RECURSIVE SkipWs(_, _)
SkipWs(b, i) == IF At(b, i) \in {32, 9, 10, 13} THEN SkipWs(b, i + 1) ELSE i

\* The bytes b[i..] start with the given text.
StartsWith(b, i, text) ==
    /\ i + Len(text) - 1 <= Len(b)
    /\ SubSeq(b, i, i + Len(text) - 1) = text

\* The value of a decimal or hexadecimal digit, -1 for any other byte.
Digit(c) == IF c >= 48 /\ c <= 57 THEN c - 48 ELSE -1
HexValue(c) ==
    IF c >= 48 /\ c <= 57 THEN c - 48
    ELSE IF c >= 97 /\ c <= 102 THEN c - 87
    ELSE IF c >= 65 /\ c <= 70 THEN c - 55
    ELSE -1

\* The four hexadecimal digits of a \u escape, -1 when one of them is missing.
Hex4(b, i) ==
    IF \E k \in 0..3 : HexValue(At(b, i + k)) < 0 THEN -1
    ELSE HexValue(At(b, i)) * 4096 + HexValue(At(b, i + 1)) * 256
         + HexValue(At(b, i + 2)) * 16 + HexValue(At(b, i + 3))

\* The character a one-letter escape stands for (" \ / b f n r t), -1 otherwise.
Unescaped(e) ==
    IF e \in {34, 92, 47} THEN e
    ELSE IF e = 98 THEN 8
    ELSE IF e = 102 THEN 12
    ELSE IF e = 110 THEN 10
    ELSE IF e = 114 THEN 13
    ELSE IF e = 116 THEN 9
    ELSE -1

\* SliceRead::parse_str after the opening quote: bytes are copied up to the
\* closing quote; a backslash introduces an escape; a raw control byte and the
\* end of the input are errors; a \u escape is written in UTF-8, a surrogate
\* only as a pair.
RECURSIVE ParseStrBytes(_, _, _)
ParseStrBytes(b, i, out) ==
    LET c == At(b, i)
        e == At(b, i + 1)
        n == Hex4(b, i + 2)
        low == Hex4(b, i + 8)
    IN IF c = 34 THEN ParseOk(out, i + 1)
       ELSE IF c < 32 THEN ParseErr
       ELSE IF c # 92 THEN ParseStrBytes(b, i + 1, Append(out, c))
       ELSE IF Unescaped(e) >= 0 THEN ParseStrBytes(b, i + 2, Append(out, Unescaped(e)))
       ELSE IF e # 117 \/ n < 0 THEN ParseErr
       ELSE IF n >= 55296 /\ n <= 56319
            THEN IF At(b, i + 6) = 92 /\ At(b, i + 7) = 117 /\ low >= 56320 /\ low <= 57343
                 THEN ParseStrBytes(b, i + 12,
                         out \o Utf8Encode(<<65536 + (n - 55296) * 1024 + (low - 56320)>>))
                 ELSE ParseErr
       ELSE IF n >= 56320 /\ n <= 57343 THEN ParseErr
       ELSE ParseStrBytes(b, i + 6, out \o Utf8Encode(<<n>>))

\* Deserializer::deserialize_string: a JSON string, whose unescaped bytes must be
\* UTF-8.
parse_str(b, i) ==
    LET start == SkipWs(b, i)
        r == ParseStrBytes(b, start + 1, <<>>)
    IN IF At(b, start) # 34 \/ ~r.ok THEN ParseErr
       ELSE IF from_utf8(r.v) = None THEN ParseErr
       ELSE ParseOk(from_utf8(r.v)[1], r.i)

\* The largest integer of the model; u64 ends at 2^64 - 1, where serde_json
\* reports a number out of range in the same way.
MaxInt == 2147483647

\* The digits of a number, accumulated from the left.
RECURSIVE ParseDigits(_, _, _)
ParseDigits(b, i, n) ==
    LET d == Digit(At(b, i))
    IN IF d < 0 THEN ParseOk(n, i)
       ELSE IF n > (MaxInt - d) \div 10 THEN ParseErr
       ELSE ParseDigits(b, i + 1, n * 10 + d)

\* Deserializer::deserialize_u64: digits without a sign; a leading zero stands
\* alone; a fraction or an exponent makes the number a float, which is not a u64.
parse_u64(b, i) ==
    LET start == SkipWs(b, i)
        r == IF At(b, start) = 48
             THEN IF Digit(At(b, start + 1)) >= 0 THEN ParseErr ELSE ParseOk(0, start + 1)
             ELSE ParseDigits(b, start, 0)
    IN IF Digit(At(b, start)) < 0 \/ ~r.ok THEN ParseErr
       ELSE IF At(b, r.i) \in {46, 101, 69} THEN ParseErr
       ELSE r

\* The variant of LaunchpadType named by a JSON string.
parse_launchpad(b, i) ==
    LET r == parse_str(b, i)
    IN IF ~r.ok THEN ParseErr
       ELSE IF r.v = VariantName.Pumpfun THEN ParseOk("Pumpfun", r.i)
       ELSE IF r.v = VariantName.Meteora THEN ParseOk("Meteora", r.i)
       ELSE ParseErr

\* Two and four decimal digits at position i of a text, -1 when one is missing.
Num2(s, i) ==
    IF Digit(At(s, i)) < 0 \/ Digit(At(s, i + 1)) < 0 THEN -1
    ELSE Digit(At(s, i)) * 10 + Digit(At(s, i + 1))
Num4(s, i) == IF Num2(s, i) < 0 \/ Num2(s, i + 2) < 0 THEN -1
              ELSE Num2(s, i) * 100 + Num2(s, i + 2)

\* The digits after the decimal point: the first nine give the nanoseconds, read
\* as if padded with zeros on the right; further digits are skipped.
RECURSIVE ParseFraction(_, _, _, _)
ParseFraction(s, i, count, nano) ==
    LET d == Digit(At(s, i))
    IN IF d < 0
       THEN [count |-> count, i |-> i,
             nano |-> nano * (CASE count = 0 -> 0 [] count = 1 -> 100000000
                                [] count = 2 -> 10000000 [] count = 3 -> 1000000
                                [] count = 4 -> 100000 [] count = 5 -> 10000
                                [] count = 6 -> 1000 [] count = 7 -> 100
                                [] count = 8 -> 10 [] OTHER -> 1)]
       ELSE IF count >= 9 THEN ParseFraction(s, i + 1, count, nano)
       ELSE ParseFraction(s, i + 1, count + 1, nano * 10 + d)

\* The days of a month of the proleptic Gregorian calendar.
DaysIn(year, month) ==
    IF month \in {4, 6, 9, 11} THEN 30
    ELSE IF month # 2 THEN 31
    ELSE IF year % 4 = 0 /\ (year % 100 # 0 \/ year % 400 = 0) THEN 29
    ELSE 28

\* chrono's FromStr for DateTime, then with_timezone(&Utc): date, T, time, an
\* optional fraction and the offset; second 60 is a leap second, kept as second
\* 59 with the fraction above 10^9. Of the offsets only Z and +00:00 are read,
\* the others, which to_vec never writes, count as errors here.
parse_datetime(s) ==
    LET year == Num4(s, 1)
        month == Num2(s, 6)
        day == Num2(s, 9)
        hour == Num2(s, 12)
        minute == Num2(s, 15)
        second == Num2(s, 18)
        fraction == IF At(s, 20) = 46 THEN ParseFraction(s, 21, 0, 0)
                    ELSE [count |-> 1, i |-> 20, nano |-> 0]
        end == IF At(s, fraction.i) \in {90, 122} THEN fraction.i + 1
               ELSE IF StartsWith(s, fraction.i, <<43, 48, 48, 58, 48, 48>>)
                    THEN fraction.i + 6
               ELSE 0
    IN IF /\ year >= 0
          /\ At(s, 5) = 45
          /\ month >= 1 /\ month <= 12
          /\ At(s, 8) = 45
          /\ day >= 1 /\ day <= DaysIn(year, month)
          /\ At(s, 11) \in {84, 116, 32}
          /\ hour >= 0 /\ hour <= 23
          /\ At(s, 14) = 58
          /\ minute >= 0 /\ minute <= 59
          /\ At(s, 17) = 58
          /\ second >= 0 /\ second <= 60
          /\ fraction.count >= 1
          /\ end = Len(s) + 1
       THEN Some([date |-> <<year, month, day>>,
                  secs |-> hour * 3600 + minute * 60 + Min(second, 59),
                  frac |-> fraction.nano + (IF second = 60 THEN 1000000000 ELSE 0)])
       ELSE None

\* Deserialize for DateTime<Utc>: a JSON string holding such a text.
parse_timestamp(b, i) ==
    LET r == parse_str(b, i)
    IN IF ~r.ok \/ parse_datetime(r.v) = None THEN ParseErr
       ELSE ParseOk(parse_datetime(r.v)[1], r.i)

\* Option<T>: null is None, anything else is read as T.
parse_option(b, i, r) ==
    LET start == SkipWs(b, i)
    IN IF At(b, start) = 110
       THEN IF StartsWith(b, start, JsonNull) THEN ParseOk(None, start + 4) ELSE ParseErr
       ELSE IF r.ok THEN ParseOk(Some(r.v), r.i) ELSE ParseErr

\* IgnoredAny: the value of a key that names no field is read and dropped,
\* whatever it is (string, number, literal, array or object).
RECURSIVE SkipNumber(_, _)
SkipNumber(b, i) ==
    IF Digit(At(b, i)) >= 0 \/ At(b, i) \in {43, 45, 46, 69, 101}
    THEN SkipNumber(b, i + 1)
    ELSE ParseOk(<<>>, i)

RECURSIVE SkipValue(_, _)
RECURSIVE SkipItems(_, _, _)
SkipValue(b, i) ==
    LET start == SkipWs(b, i)
        c == At(b, start)
    IN IF c = 34 THEN ParseStrBytes(b, start + 1, <<>>)
       ELSE IF c = 110 /\ StartsWith(b, start, JsonNull) THEN ParseOk(<<>>, start + 4)
       ELSE IF c = 116 /\ StartsWith(b, start, <<116, 114, 117, 101>>)
            THEN ParseOk(<<>>, start + 4)
       ELSE IF c = 102 /\ StartsWith(b, start, <<102, 97, 108, 115, 101>>)
            THEN ParseOk(<<>>, start + 5)
       ELSE IF c = 45 \/ Digit(c) >= 0 THEN SkipNumber(b, start + 1)
       ELSE IF c \in {91, 123}
            THEN IF At(b, SkipWs(b, start + 1)) = c + 2
                 THEN ParseOk(<<>>, SkipWs(b, start + 1) + 1)
                 ELSE SkipItems(b, start + 1, c + 2)
       ELSE ParseErr

\* The items of an array or the members of an object, up to the closing byte.
SkipItems(b, i, closing) ==
    LET key == IF closing = 125 THEN parse_str(b, i) ELSE ParseOk(<<>>, i)
        colon == SkipWs(b, key.i)
        item == IF closing = 125 THEN SkipValue(b, colon + 1) ELSE SkipValue(b, i)
        after == SkipWs(b, item.i)
    IN IF ~key.ok \/ (closing = 125 /\ At(b, colon) # 58) \/ ~item.ok THEN ParseErr
       ELSE IF At(b, after) = 44 THEN SkipItems(b, after + 1, closing)
       ELSE IF At(b, after) = closing THEN ParseOk(<<>>, after + 1)
       ELSE ParseErr

\* The field of a struct that a key names, "" when it names none.
FieldOf(kind, key) ==
    IF kind = "TokenLaunch"
    THEN IF key = FieldName.launchpad THEN "launchpad"
         ELSE IF key = FieldName.token_address THEN "token_address"
         ELSE IF key = FieldName.creator THEN "creator"
         ELSE IF key = FieldName.signature THEN "signature"
         ELSE IF key = FieldName.slot THEN "slot"
         ELSE IF key = FieldName.timestamp THEN "timestamp"
         ELSE IF key = FieldName.metadata THEN "metadata"
         ELSE ""
    ELSE IF key = FieldName.name THEN "name"
         ELSE IF key = FieldName.symbol THEN "symbol"
         ELSE IF key = FieldName.uri THEN "uri"
         ELSE IF key = FieldName.initial_supply THEN "initial_supply"
         ELSE IF key = FieldName.mint_authority THEN "mint_authority"
         ELSE ""

\* The field of f, None when the key was missing: how serde fills an Option.
OptionalField(f, name) == IF name \in DOMAIN f THEN f[name] ELSE None

\* The end of visit_map: a missing field is an error unless it is an Option.
FinishStruct(kind, f, i) ==
    IF kind = "TokenLaunch"
    THEN IF {"launchpad", "token_address", "signature", "slot", "timestamp", "metadata"}
               \subseteq DOMAIN f
         THEN ParseOk([launchpad |-> f["launchpad"],
                       token_address |-> f["token_address"],
                       creator |-> OptionalField(f, "creator"),
                       signature |-> f["signature"],
                       slot |-> f["slot"],
                       timestamp |-> f["timestamp"],
                       metadata |-> f["metadata"]], i)
         ELSE ParseErr
    ELSE ParseOk([name |-> OptionalField(f, "name"),
                  symbol |-> OptionalField(f, "symbol"),
                  uri |-> OptionalField(f, "uri"),
                  initial_supply |-> OptionalField(f, "initial_supply"),
                  mint_authority |-> OptionalField(f, "mint_authority")], i)

\* #[derive(Deserialize)] for TokenLaunch and LaunchMetadata: an object whose
\* members are read in the order they come, each value by the type of its field;
\* a key that names no field is skipped, a field given twice is an error.
RECURSIVE ParseStruct(_, _, _)
RECURSIVE ParseMembers(_, _, _, _)
RECURSIVE ParseFieldValue(_, _, _)
ParseFieldValue(name, b, i) ==
    IF name = "launchpad" THEN parse_launchpad(b, i)
    ELSE IF name \in {"token_address", "signature"} THEN parse_str(b, i)
    ELSE IF name = "slot" THEN parse_u64(b, i)
    ELSE IF name = "timestamp" THEN parse_timestamp(b, i)
    ELSE IF name = "metadata" THEN ParseStruct("LaunchMetadata", b, i)
    ELSE IF name = "initial_supply" THEN parse_option(b, i, parse_u64(b, i))
    ELSE parse_option(b, i, parse_str(b, i))

\* After the value of a member: the field is filled, then a comma continues the
\* loop of visit_map and a closing brace ends it.
AfterValue(kind, b, f, name, value) ==
    LET after == SkipWs(b, value.i)
        g == IF name = "" THEN f
             ELSE [n \in DOMAIN f \cup {name} |-> IF n = name THEN value.v ELSE f[n]]
    IN IF ~value.ok THEN ParseErr
       ELSE IF At(b, after) = 44 THEN ParseMembers(kind, b, after + 1, g)
       ELSE IF At(b, after) = 125 THEN FinishStruct(kind, g, after + 1)
       ELSE ParseErr

\* After the key of a member: the colon, then the value, read by the type of the
\* field the key names and skipped when it names none.
AfterKey(kind, b, f, key) ==
    LET colon == SkipWs(b, key.i)
        name == FieldOf(kind, key.v)
    IN IF ~key.ok \/ At(b, colon) # 58 THEN ParseErr
       ELSE IF name \in DOMAIN f THEN ParseErr
       ELSE AfterValue(kind, b, f, name,
                       IF name = "" THEN SkipValue(b, colon + 1)
                       ELSE ParseFieldValue(name, b, colon + 1))

ParseMembers(kind, b, i, f) == AfterKey(kind, b, f, parse_str(b, i))

ParseStruct(kind, b, i) ==
    LET start == SkipWs(b, i)
        first == SkipWs(b, start + 1)
    IN IF At(b, start) # 123 THEN ParseErr
       ELSE IF At(b, first) = 125 THEN FinishStruct(kind, <<>>, first + 1)
       ELSE ParseMembers(kind, b, first, <<>>)

\* serde_json::from_slice::<TokenLaunch>(&delivery.data) (consumer.rs line 141)
\* on the bytes themselves: the struct, then nothing but whitespace.
from_slice_bytes(bytes) ==
    LET r == ParseStruct("TokenLaunch", bytes, 1)
    IN IF r.ok /\ SkipWs(bytes, r.i) = Len(bytes) + 1 THEN Some(r.v) ELSE None

\* ========================================================= RabbitMQ clients
\* ------------------------------------------------------------------ bounds
\* Largest number of init and reconnect calls made on one client.
MaxInits == 2
\* Number of publish_token_launch calls made on the producer.
MaxPublishes == 2

\* The two clients, whose init functions have the same steps.
Components == {"RabbitMQProducer", "RabbitMQConsumer"}

\* The tasks that call publish_token_launch through a shared reference to, or a
\* clone of, the producer (#[derive(Clone)], producer.rs line 15): all of them
\* use the one Arc<Mutex<Channel>>.
Publishers == Tasks

\* init, producer.rs lines 36-91 and consumer.rs lines 37-92: the awaited calls
\* in the order of the code.
InitSteps == <<"connect", "create_channel", "exchange_declare", "queue_declare", "queue_bind">>

\* The statement after a step that succeeded; after queue_bind the connection
\* and the channel are stored (producer.rs lines 98-99, consumer.rs lines 99-100).
NextInitStep(step) ==
    IF step = "queue_bind" THEN "store"
    ELSE InitSteps[(CHOOSE k \in 1..Len(InitSteps) : InitSteps[k] = step) + 1]

\* An init that goes on to the next statement although a step failed.
ContinueAfterFailure(next) == next
\* .context(..)? after each step: a failure returns Err from init at once.
OnInitFailure(next) == "Err"

\* No publish_token_launch call is running: init and reconnect take &mut self,
\* which the borrow checker grants only then.
NoCallRunning == \A t \in Publishers : pc[t] \in {"idle", "pub_done"}

AmqpUnchangedRest == UNCHANGED <<qvars_but_pc, cvars, mvars, parsed, rmq, reg>>

\* init is called (main.rs line 19, rabbit_consumer.rs line 18), on a new client
\* or again on one whose earlier call has returned.
InitCall ==
    /\ amqp.step \in {"new", "Ok", "Err"}
    /\ amqp.attempt < MaxInits
    /\ NoCallRunning
    /\ amqp' = [amqp EXCEPT !.step = "connect",
                            !.attempt = @ + 1,
                            !.kinds = Append(@, "init"),
                            !.before = <<amqp.connection, amqp.channel>>]
    /\ UNCHANGED pc
    /\ AmqpUnchangedRest

\* A reconnect that leaves what is stored in place.
FieldKept(field) == field
\* Lines 151-152, self.connection = None and self.channel = None.
FieldDiscarded(field) == None

\* reconnect, producer.rs lines 149-154: both fields are set to None, then init.
Reconnect ==
    /\ amqp.component = "RabbitMQProducer"
    /\ amqp.step \in {"Ok", "Err"}
    /\ amqp.attempt < MaxInits
    /\ NoCallRunning
    /\ amqp' = [amqp EXCEPT !.connection = FieldDiscarded(@),
                            !.channel = FieldDiscarded(@),
                            !.step = "connect",
                            !.attempt = @ + 1,
                            !.kinds = Append(@, "reconnect"),
                            !.before = <<FieldDiscarded(amqp.connection),
                                         FieldDiscarded(amqp.channel)>>]
    /\ UNCHANGED pc
    /\ AmqpUnchangedRest

\* One awaited step of init: it succeeds or fails; after the last one the new
\* connection and channel are stored and init returns Ok.
InitStep ==
    /\ amqp.step \in Range(InitSteps)
    /\ \E ok \in BOOLEAN :
        LET next == NextInitStep(amqp.step)
            to == IF ok THEN next ELSE OnInitFailure(next)
        IN amqp' = [amqp EXCEPT
                       !.steps = Append(@, [attempt |-> amqp.attempt,
                                            step |-> amqp.step, ok |-> ok]),
                       !.step = IF to = "store" THEN "Ok" ELSE to,
                       !.connection = IF to = "store" THEN Some(amqp.attempt) ELSE @,
                       !.channel = IF to = "store" THEN Some(amqp.attempt) ELSE @]
    /\ UNCHANGED pc
    /\ AmqpUnchangedRest

\* publish_token_launch, lines 106-107 and 134-136: without a stored channel the
\* call returns Err; with one it goes on to lock it.
PublishCall(t) ==
    /\ amqp.component = "RabbitMQProducer"
    /\ pc[t] \in {"idle", "pub_done"}
    /\ amqp.step \in {"new", "Ok", "Err"}
    /\ amqp.todo # <<>>
    /\ amqp' = [amqp EXCEPT
                   !.todo = Tail(@),
                   !.started = @ + 1,
                   !.call[t] = [id |-> amqp.started + 1,
                                launch |-> Head(amqp.todo),
                                payload |-> <<>>,
                                result |-> IF amqp.channel = None THEN "Err" ELSE "none",
                                channel |-> amqp.channel,
                                after |-> amqp.attempt]]
    /\ pc' = [pc EXCEPT ![t] = IF amqp.channel = None THEN "pub_done" ELSE "pub_lock"]
    /\ AmqpUnchangedRest

\* A lock that is handed out whoever holds it.
LockChannelIgnoringHolder(t) == TRUE
\* tokio's Mutex::lock: the lock is free.
CanLockChannel(t) == amqp.holder = NoTask

\* Line 108, channel_arc.lock().await: the task gets the lock when it is free and
\* otherwise joins the waiters, which tokio's Mutex serves first come first served.
LockChannel(t) ==
    /\ pc[t] = "pub_lock"
    /\ IF CanLockChannel(t)
       THEN /\ amqp' = [amqp EXCEPT !.holder = t]
            /\ pc' = [pc EXCEPT ![t] = "pub_ser"]
       ELSE /\ amqp' = [amqp EXCEPT !.waiters = Append(@, t)]
            /\ pc' = [pc EXCEPT ![t] = "pub_wait"]
    /\ AmqpUnchangedRest

\* Lines 110-112, serde_json::to_vec(token_launch): the Serialize impls of
\* TokenLaunch write strings, integers, null and objects with string keys, for
\* which to_vec returns no Err, so the `?` never returns here.
SerializeLaunch(t) ==
    /\ pc[t] = "pub_ser"
    /\ amqp' = [amqp EXCEPT !.call[t].payload = to_vec(amqp.call[t].launch)]
    /\ pc' = [pc EXCEPT ![t] = "pub_send"]
    /\ AmqpUnchangedRest

\* A publish failure that is swallowed.
PublishErrorIgnored == "Ok"
\* Line 126, .context("Failed to publish message")?: the call returns Err.
OnPublishError == "Err"

\* Lines 115-133: basic_publish(..).await either hands the payload to the broker
\* or fails; the call returns, the guard is dropped and the lock goes to the
\* task that has waited longest.
BasicPublish(t) ==
    /\ pc[t] = "pub_send"
    /\ \E ok \in BOOLEAN :
        amqp' = [amqp EXCEPT
                    !.call[t].result = IF ok THEN "Ok" ELSE OnPublishError,
                    !.broker = IF ok THEN Append(@, amqp.call[t].payload) ELSE @,
                    !.accepted = IF ok THEN Append(@, amqp.call[t]) ELSE @,
                    !.holder = IF amqp.waiters = <<>> THEN NoTask ELSE Head(amqp.waiters),
                    !.waiters = IF amqp.waiters = <<>> THEN <<>> ELSE Tail(amqp.waiters)]
    /\ pc' = [u \in Tasks |->
                IF u = t THEN "pub_done"
                ELSE IF amqp.waiters # <<>> /\ u = Head(amqp.waiters) THEN "pub_ser"
                ELSE pc[u]]
    /\ AmqpUnchangedRest

\* ------------------------------------------------------- the values published
\* Strings with what JSON has to escape or encode: empty, a letter, a quote, a
\* backslash, a line feed, the control character U+001F, e with an acute accent
\* (2 bytes of UTF-8), the euro sign (3 bytes), an emoji (4 bytes), a backslash
\* followed by n, and the text null.
Strings ==
    {<<>>, <<97>>, <<34>>, <<92>>, <<10>>, <<31>>, <<233>>, <<8364>>, <<128512>>,
     <<92, 110>>, JsonNull}

\* u64 values: one digit, two digits, and the largest integer of the model.
Numbers == {0, 9, 10, 1000000, MaxInt}

\* DateTime<Utc> values, as date, second of the day and fraction in nanoseconds
\* (10^9 and more in a leap second): whole seconds, fractions that take 3, 6 and
\* 9 digits, a leap second, the first and the last day of 4-digit years.
Timestamps ==
    {[date |-> <<2024, 2, 29>>, secs |-> 45296, frac |-> 0],
     [date |-> <<2024, 2, 29>>, secs |-> 45296, frac |-> 120000000],
     [date |-> <<2024, 2, 29>>, secs |-> 45296, frac |-> 1000],
     [date |-> <<2024, 2, 29>>, secs |-> 45296, frac |-> 1],
     [date |-> <<2024, 12, 31>>, secs |-> 86399, frac |-> 1999999999],
     [date |-> <<1970, 1, 1>>, secs |-> 0, frac |-> 0],
     [date |-> <<0, 1, 1>>, secs |-> 3600, frac |-> 999999999],
     [date |-> <<9999, 12, 31>>, secs |-> 86399, frac |-> 500000000]}

Options(S) == {None} \cup {Some(x) : x \in S}

TokenLaunchOf(launchpad, token_address, creator, slot, timestamp, metadata) ==
    [launchpad |-> launchpad, token_address |-> token_address, creator |-> creator,
     signature |-> <<53, 115>>, slot |-> slot, timestamp |-> timestamp,
     metadata |-> metadata]

\* Every combination of present and absent optional fields, for both launchpads.
PresenceLaunches ==
    {TokenLaunchOf(launchpad, <<77>>, creator, 1, CHOOSE t \in Timestamps : t.frac = 1,
                   [name |-> name, symbol |-> symbol, uri |-> uri,
                    initial_supply |-> initial_supply, mint_authority |-> mint_authority]) :
        launchpad \in {"Pumpfun", "Meteora"},
        creator \in Options({<<67>>}),
        name \in Options({<<80, 85, 77, 80>>}),
        symbol \in Options({<<80, 77, 80>>}),
        uri \in Options({<<47>>}),
        initial_supply \in Options({1000000}),
        mint_authority \in Options({<<65>>})}

\* Every string in the required and in the optional string fields.
StringLaunches ==
    {TokenLaunchOf("Pumpfun", token_address, creator, 1,
                   CHOOSE t \in Timestamps : t.frac = 0,
                   [NoMetadata EXCEPT !.name = creator, !.mint_authority = creator]) :
        token_address \in Strings, creator \in Options(Strings)}

\* Every number and every timestamp.
NumberLaunches ==
    {TokenLaunchOf("Meteora", <<77>>, None, slot, timestamp,
                   [NoMetadata EXCEPT !.initial_supply = initial_supply]) :
        slot \in Numbers, timestamp \in Timestamps, initial_supply \in Options(Numbers)}

TokenLaunches == PresenceLaunches \cup StringLaunches \cup NumberLaunches

\* The launches handed to the calls of the producer specification, in call
\* order: a Pumpfun launch and a Meteora launch in turn.
SampleLaunches ==
    [k \in 1..MaxPublishes |->
        IF k % 2 = 1
        THEN TokenLaunchOf("Pumpfun", <<77>>, None, 1,
                           CHOOSE t \in Timestamps : t.frac = 0, NoMetadata)
        ELSE TokenLaunchOf("Meteora", <<34>>, Some(<<67>>), 10,
                           CHOOSE t \in Timestamps : t.frac = 1,
                           [NoMetadata EXCEPT !.name = Some(<<80, 85, 77, 80>>)])]

\* ---------------------------------------------- the producer specification
\* RabbitMQProducer::new or RabbitMQConsumer::new (both fields None), and the
\* launches that will be handed to publish_token_launch.
ProducerInit ==
    /\ queue = <<>>
    /\ max_size = ClientQueueSize
    /\ lock = NoTask
    /\ pc = [t \in Tasks |-> "idle"]
    /\ local = [t \in Tasks |-> NoLocals]
    /\ pushed = 0
    /\ delivered = <<>>
    /\ evicted = <<>>
    /\ ClientIdle
    /\ ManagerIdle
    /\ DecoderIdle
    /\ ConsumerIdle
    /\ RegistryIdle
    /\ \E component \in Components :
          amqp = [NoAmqp EXCEPT
                     !.component = component,
                     !.todo = IF component = "RabbitMQProducer" THEN SampleLaunches
                              ELSE <<>>]

\* The steps of the tasks inside publish_token_launch.
PublishStep ==
    \E t \in Publishers : LockChannel(t) \/ SerializeLaunch(t) \/ BasicPublish(t)

ProducerNext ==
    \/ InitCall
    \/ Reconnect
    \/ InitStep
    \/ \E t \in Publishers : PublishCall(t)
    \/ PublishStep

SpecProducer == ProducerInit /\ [][ProducerNext]_vars


\* ------------------------------------------ the publishing specification
\* A producer whose first init has returned Ok (main.rs lines 18-22), and the
\* launches that will be handed to publish_token_launch, one of todos.
InitializedWith(todos) ==
    /\ queue = <<>>
    /\ max_size = ClientQueueSize
    /\ lock = NoTask
    /\ pc = [t \in Tasks |-> "idle"]
    /\ local = [t \in Tasks |-> NoLocals]
    /\ pushed = 0
    /\ delivered = <<>>
    /\ evicted = <<>>
    /\ ClientIdle
    /\ ManagerIdle
    /\ DecoderIdle
    /\ ConsumerIdle
    /\ RegistryIdle
    /\ \E todo \in todos :
          amqp = [NoAmqp EXCEPT
                     !.component = "RabbitMQProducer",
                     !.connection = Some(1),
                     !.channel = Some(1),
                     !.step = "Ok",
                     !.attempt = 1,
                     !.kinds = <<"init">>,
                     !.before = <<None, None>>,
                     !.steps = [k \in 1..Len(InitSteps) |->
                                   [attempt |-> 1, step |-> InitSteps[k], ok |-> TRUE]],
                     !.todo = todo]

\* Calls of publish_token_launch from several tasks on the initialised producer.
PublishInit == InitializedWith({SampleLaunches})

PublishNext ==
    \/ \E t \in Publishers : PublishCall(t)
    \/ PublishStep

SpecPublish == PublishInit /\ [][PublishNext]_vars

\* The runtime polls every task that can take a step, and the broker answers
\* every basic_publish.
FairSpecPublish == SpecPublish /\ WF_vars(PublishStep)

\* --------------------------------------------- the round-trip specification
\* Line 139-141 of consumer.rs: the payload the broker delivers is handed to
\* from_slice.
ReceiveDelivery ==
    /\ amqp.broker # <<>>
    /\ amqp' = [amqp EXCEPT !.broker = Tail(@),
                            !.decoded = Append(@, from_slice_bytes(Head(amqp.broker)))]
    /\ UNCHANGED pc
    /\ AmqpUnchangedRest

\* The initialised producer and one launch to publish.
RoundTripInit == InitializedWith({<<token_launch>> : token_launch \in TokenLaunches})

RoundTripNext ==
    \/ PublishCall(Dispatcher)
    \/ LockChannel(Dispatcher)
    \/ SerializeLaunch(Dispatcher)
    \/ BasicPublish(Dispatcher)
    \/ ReceiveDelivery

SpecRoundTrip == RoundTripInit /\ [][RoundTripNext]_vars

\* ------------------------------------------------- claims about the round trip
\* C23: publishing a TokenLaunch and consuming it is lossless: for every
\* TokenLaunch (each launchpad, the creator and each metadata field present or
\* absent), deserializing the JSON that publish handed to the broker yields a
\* TokenLaunch equal to the original in every field.
C23_RoundTripIsLossless ==
    \A k \in 1..Len(amqp.decoded) :
        amqp.decoded[k] = Some(amqp.accepted[k].launch)

\* C23 witness: a Meteora launch without creator and symbol, with a name and an
\* initial supply, has been published and read back.
C23_Witness ==
    /\ Len(amqp.decoded) = 1
    /\ amqp.decoded[1] # None
    /\ amqp.accepted[1].launch.launchpad = "Meteora"
    /\ amqp.accepted[1].launch.creator = None
    /\ amqp.accepted[1].launch.metadata.name # None
    /\ amqp.accepted[1].launch.metadata.symbol = None
    /\ amqp.accepted[1].launch.metadata.initial_supply # None

\* ------------------------------------------------ claims about the producer
\* The broker was handed the payload of the call with this id.
HandedToBroker(id) == \E k \in 1..Len(amqp.accepted) : amqp.accepted[k].id = id

\* C22: publish_token_launch never drops a message silently: a call returns Ok
\* only after basic_publish handed the payload to the broker, and returns Err
\* whenever the message was not handed over, be it that no channel is stored (no
\* init, a failed init or a failed reconnect) or that the broker publish failed.
C22_PublishNeverDropsSilently ==
    \A t \in Publishers :
        /\ pc[t] = "pub_done"
              => /\ amqp.call[t].result \in {"Ok", "Err"}
                 /\ amqp.call[t].result = "Ok" <=> HandedToBroker(amqp.call[t].id)
        /\ pc[t] \in {"pub_lock", "pub_wait", "pub_ser", "pub_send"}
              => ~HandedToBroker(amqp.call[t].id)

\* C22 witness: after an init that returned Ok a call returned Err because
\* basic_publish failed; then reconnect failed and a second call returned Err for
\* want of a channel; the broker was handed nothing.
C22_Witness ==
    /\ amqp.step = "Err"
    /\ amqp.channel = None
    /\ pc["consumer1"] = "pub_done"
    /\ amqp.call["consumer1"].id = 1
    /\ amqp.call["consumer1"].result = "Err"
    /\ amqp.call["consumer1"].payload # <<>>
    /\ pc["consumer2"] = "pub_done"
    /\ amqp.call["consumer2"].id = 2
    /\ amqp.call["consumer2"].result = "Err"
    /\ amqp.call["consumer2"].payload = <<>>
    /\ amqp.accepted = <<>>

\* The task is between acquiring the channel and the return of basic_publish.
InChannel(t) == pc[t] \in {"pub_ser", "pub_send"}

\* C29: concurrent publish_token_launch calls on clones of one producer are
\* serialized by the channel lock: at most one call is between acquiring the
\* channel and completing the broker publish, and every call that waits for the
\* channel acquires it once the holder has finished.
C29_PublishesAreSerialized ==
    /\ [](\A t, u \in Publishers : (InChannel(t) /\ InChannel(u)) => t = u)
    /\ [](\A t \in Publishers : InChannel(t) => amqp.holder = t)
    /\ \A t \in Publishers : (pc[t] \in {"pub_lock", "pub_wait"}) ~> InChannel(t)

\* C29 witness: one call is about to publish while another waits for the channel.
C29_Witness ==
    /\ pc["consumer1"] = "pub_send"
    /\ amqp.holder = "consumer1"
    /\ pc["consumer2"] = "pub_wait"
    /\ amqp.waiters = <<"consumer2">>

\* ------------------------------------------------------- claims about init
\* The steps the init call number a has taken, in the order it took them.
StepsOf(a) == SelectSeq(amqp.steps, LAMBDA e : e.attempt = a)

\* What the client has stored.
Stored == <<amqp.connection, amqp.channel>>

\* C30: init performs connect, create channel, declare exchange, declare queue
\* and bind queue in this order; a failure at any step returns Err at once, with
\* no later step and no retry, and leaves the stored connection and channel as
\* they were: they are stored only after the bind has succeeded.
C30_InitStopsAtFirstFailure ==
    /\ \A a \in 1..amqp.attempt :
          /\ Len(StepsOf(a)) <= Len(InitSteps)
          /\ \A k \in 1..Len(StepsOf(a)) :
                /\ StepsOf(a)[k].step = InitSteps[k]
                /\ k < Len(StepsOf(a)) => StepsOf(a)[k].ok
    /\ amqp.step \in Range(InitSteps)
          => /\ Stored = amqp.before
             /\ \A k \in 1..Len(StepsOf(amqp.attempt)) : StepsOf(amqp.attempt)[k].ok
             /\ amqp.step = InitSteps[Len(StepsOf(amqp.attempt)) + 1]
    /\ amqp.step = "Err"
          => /\ Stored = amqp.before
             /\ StepsOf(amqp.attempt) # <<>>
             /\ ~StepsOf(amqp.attempt)[Len(StepsOf(amqp.attempt))].ok
    /\ amqp.step = "Ok"
          => /\ Stored = <<Some(amqp.attempt), Some(amqp.attempt)>>
             /\ Len(StepsOf(amqp.attempt)) = Len(InitSteps)
             /\ StepsOf(amqp.attempt)[Len(InitSteps)].ok

\* C30 witness: on a consumer whose first init returned Ok, a second init failed
\* at the bind: it returned Err after five steps and the connection and channel
\* of the first init are still stored.
C30_Witness ==
    /\ amqp.component = "RabbitMQConsumer"
    /\ amqp.attempt = 2
    /\ amqp.step = "Err"
    /\ Len(StepsOf(2)) = 5
    /\ StepsOf(2)[5] = [attempt |-> 2, step |-> "queue_bind", ok |-> FALSE]
    /\ Stored = <<Some(1), Some(1)>>

\* ================================================ ingestion and dispatch
\* The configuration of the pipeline specification: one filter, which lets
\* through the transactions that mention account A.
PipelineConfigs == {{[account_include |-> Some({"A"}), account_required |-> None]}}

\* start_processing, line 45: the dispatch task enters pop_batch(10), where it
\* first waits for the lock (queue.rs line 81).
StartPopBatch ==
    /\ pc[Dispatcher] = "sp_pull"
    /\ local' = [local EXCEPT ![Dispatcher] =
                    [NoLocals EXCEPT !.op = "pop_batch", !.max_count = DispatchBatchSize]]
    /\ pc' = [pc EXCEPT ![Dispatcher] = "lock"]
    /\ UNCHANGED <<queue, max_size, lock, pushed, delivered, evicted>>
    /\ UNCHANGED <<cvars, mvars, ovars>>

\* pop_batch as called from start_processing: the statements of
\* TransactionQueue::pop_batch up to its return.
DispatchPopBatch ==
    \/ Acquire(Dispatcher)
    \/ PopBatchIter(Dispatcher)

\* A guard that outlives the call.
GuardKept(t) == t
\* queue.rs line 93: pop_batch returns, its MutexGuard goes out of scope.
GuardDropped(t) == NoTask

\* queue.rs line 92 and manager.rs lines 45-50: pop_batch returns the batch and
\* drops the guard; an empty batch leads to the sleep. The transactions the
\* client builds carry no instruction (client.rs lines 118-123).
PopBatchReturn ==
    /\ pc[Dispatcher] = "ret"
    /\ lock' = GuardDropped(Dispatcher)
    /\ disp' = [disp EXCEPT
                   !.batch = [k \in 1..Len(local[Dispatcher].batch) |->
                                 [signature |-> local[Dispatcher].batch[k].signature,
                                  instructions |-> <<>>]],
                   !.pulled = @ \o [k \in 1..Len(local[Dispatcher].batch) |->
                                       local[Dispatcher].batch[k].signature]]
    /\ local' = [local EXCEPT ![Dispatcher] = NoLocals]
    /\ pc' = [pc EXCEPT ![Dispatcher] =
                 IF local[Dispatcher].batch = <<>> THEN "sp_sleep" ELSE "sp_for"]
    /\ UNCHANGED <<queue, max_size, pushed, delivered, evicted>>
    /\ UNCHANGED <<cvars, tx, mgr, obs, ovars>>

\* main.rs lines 24-40: the queue, the ingestion task at the top of its loop and
\* the dispatch task at the top of start_processing.
PipelineInit ==
    /\ queue = <<>>
    /\ max_size = ClientQueueSize
    /\ lock = NoTask
    /\ pc = [t \in Tasks |->
                IF t = Ingest THEN "loop_top" ELSE IF t = Dispatcher THEN "sp_pull" ELSE "idle"]
    /\ local = [t \in Tasks |-> NoLocals]
    /\ pushed = 0
    /\ delivered = <<>>
    /\ evicted = <<>>
    /\ config \in PipelineConfigs
    /\ tls \in BOOLEAN
    /\ msg = NoMsg
    /\ received = 0
    /\ iter_result = "none"
    /\ failed_at = "none"
    /\ last_pause = 0
    /\ subscribed = FALSE
    /\ ManagerIdle
    /\ DecoderIdle
    /\ ConsumerIdle
    /\ RegistryIdle
    /\ AmqpIdle

PipelineNext ==
    \/ ClientNext
    \/ StartPopBatch
    \/ DispatchPopBatch
    \/ PopBatchReturn
    \/ EmptyBatchSleep
    \/ NextTransaction
    \/ Scan
    \/ TransactionDone

SpecPipeline == PipelineInit /\ [][PipelineNext]_vars

\* ------------------------------------------------ claims about the queue lock
\* The statements of push and pop_batch between taking the guard and dropping
\* it; none of them awaits.
InCriticalSection(t) ==
    pc[t] \in {"push_loop", "push_evict", "push_back", "pop_batch_loop", "ret"}

\* The ingestion task waits for the next stream message, or is about to sleep
\* after an error or after the end of the stream.
IngestSuspended == pc[Ingest] \in {"recv", "loop_err", "stream_ended"}

\* The dispatch task sleeps after an empty batch, or processes a batch.
DispatchSuspended ==
    pc[Dispatcher] \in {"sp_sleep", "sp_for", "pt_scan", "pt_parse", "pt_result", "pt_done"}

\* C28: no task holds the queue lock while it is suspended: the ingestion task
\* does not hold it while it waits for a stream message or pauses, the dispatch
\* task does not hold it in its idle pause or while it processes a batch; the
\* lock is only held inside push and pop_batch, so the other task can acquire it.
C28_NoLockWhileSuspended ==
    /\ IngestSuspended => lock # Ingest
    /\ DispatchSuspended => lock # Dispatcher
    /\ \A t \in Tasks : lock = t => InCriticalSection(t)

\* C28 witness: the dispatch task processes a transaction while the ingestion
\* task, having waited for the stream, is inside push with the lock.
C28_Witness ==
    /\ pc[Dispatcher] = "pt_scan"
    /\ lock = Ingest
    /\ pc[Ingest] = "push_back"
    /\ received = 2

\* ------------------------------------------------- claims about reconnect
\* is_connected, producer.rs lines 140-146: false without a stored connection,
\* otherwise what the connection reports about itself.
is_connected(connected) == IF amqp.connection # None THEN connected ELSE FALSE

\* The init or reconnect call number a has stored a connection and a channel.
Succeeded(a) ==
    \E k \in 1..Len(amqp.steps) :
        amqp.steps[k] = [attempt |-> a, step |-> "queue_bind", ok |-> TRUE]

\* The call of publish_token_launch began when the last init or reconnect call
\* made on the producer was a reconnect.
AfterReconnect(call) ==
    /\ call.id # 0
    /\ call.after >= 1
    /\ amqp.kinds[call.after] = "reconnect"

\* C31: reconnect discards the stored connection and channel before it runs
\* init again. After a reconnect that succeeded, publishes use only the channel
\* it created; while it runs and after it failed the producer holds neither a
\* connection nor a channel, is_connected returns false, and every publish
\* returns the not-initialized error without reaching the broker, until a later
\* init or reconnect succeeds.
C31_ReconnectDiscardsBeforeInit ==
    /\ (amqp.attempt >= 1 /\ amqp.kinds[amqp.attempt] = "reconnect")
          => IF amqp.step = "Ok"
             THEN Stored = <<Some(amqp.attempt), Some(amqp.attempt)>>
             ELSE /\ Stored = <<None, None>>
                  /\ \A connected \in BOOLEAN : ~is_connected(connected)
    /\ \A t \in Publishers :
          AfterReconnect(amqp.call[t])
             => IF Succeeded(amqp.call[t].after)
                THEN amqp.call[t].channel = Some(amqp.call[t].after)
                ELSE /\ amqp.call[t].channel = None
                     /\ pc[t] = "pub_done"
                     /\ amqp.call[t].result = "Err"
                     /\ ~HandedToBroker(amqp.call[t].id)
    /\ \A k \in 1..Len(amqp.accepted) :
          AfterReconnect(amqp.accepted[k])
             => amqp.accepted[k].channel = Some(amqp.accepted[k].after)

\* C31 witness: a launch was published on the channel of the first init, then a
\* reconnect succeeded and the next launch was published on the channel it
\* created.
C31_Witness ==
    /\ amqp.kinds = <<"init", "reconnect">>
    /\ amqp.step = "Ok"
    /\ Len(amqp.accepted) = 2
    /\ amqp.accepted[1].channel = Some(1)
    /\ amqp.accepted[2].channel = Some(2)
    /\ amqp.channel = Some(2)

\* ------------------------------------------- claims about ignored messages
\* A message that is not a transaction update, or a transaction update without
\* an inner transaction or without any signature.
NotATransaction(m) ==
    \/ m.kind # "transaction"
    \/ ~m.has_tx
    \/ ~m.has_inner
    \/ m.signatures = 0

\* C32: processing a message that is not a transaction update, or a transaction
\* update without an inner transaction or without any signature, leaves the
\* queue unchanged: no step of process_message pushes an item, evicts one or
\* takes the lock of the queue.
C32_OtherMessagesLeaveQueueUnchanged ==
    [][(msg # NoMsg /\ NotATransaction(msg))
          => UNCHANGED <<queue, evicted, pushed, lock>>]_vars

\* C32 witness: process_message has returned for a transaction update without a
\* signature whose accounts a configured filter names; the queue holds what it
\* held before.
C32_Witness ==
    /\ Processed
    /\ msg = Update("transaction", TRUE, TRUE, 0, TRUE, Accounts)
    /\ should_queue_transaction(CollectAccounts(msg))
    /\ Len(queue) = ClientQueueSize
    /\ queue[1].signature = 1
    /\ evicted = <<>>

\* ================================================ string extraction alone
\* ------------------------------------------------------------------ bounds
\* Largest number of bytes that follow a length prefix.
MaxStringBytes == 5

\* ------------------------------------------------------------------ inputs
\* The bytes a length prefix is made of: they give the lengths 0, 1, 4, 5 and
\* 6, lengths of 2^8, 2^16 and 2^24 and their multiples, and 2^32 - 1.
PrefixBytes == {0, 1, 4, 5, 6, 255}
LengthPrefixes == [1..4 -> PrefixBytes]

\* What follows the prefix: the first bytes of "PUMP!!..", or a byte that is
\* never valid in UTF-8.
StringBodies ==
    {[k \in 1..n |-> IF k <= 4 THEN <<80, 85, 77, 80>>[k] ELSE 33] :
        n \in 0..MaxStringBytes}
    \cup {<<255>>}

\* A payload and the position of a length prefix in it: at the start or after a
\* discriminator, the prefix whole or cut short.
ExtractInputs ==
    {[data |-> pad \o prefix \o body, start |-> Len(pad)] :
        pad \in {<<>>, PumpfunCreate}, prefix \in LengthPrefixes, body \in StringBodies}
    \cup {[data |-> pad \o SubSeq(prefix, 1, n), start |-> Len(pad)] :
            pad \in {<<>>, PumpfunCreate}, prefix \in {[k \in 1..4 |-> 255]}, n \in 0..3}

\* self.extract_string_from_data(data, start) in a build with or without
\* overflow checks.
CallExtractString ==
    /\ parsed.parser = "extract_string_from_data"
    /\ ~parsed.done
    /\ parsed' = [parsed EXCEPT
                     !.done = TRUE,
                     !.outcome = ExtractString(parsed.data, parsed.start,
                                               parsed.overflow_checks)]
    /\ DecoderUnchangedRest

ExtractInit ==
    /\ queue = <<>>
    /\ max_size = ClientQueueSize
    /\ lock = NoTask
    /\ pc = [t \in Tasks |-> "idle"]
    /\ local = [t \in Tasks |-> NoLocals]
    /\ pushed = 0
    /\ delivered = <<>>
    /\ evicted = <<>>
    /\ ClientIdle
    /\ ManagerIdle
    /\ ConsumerIdle
    /\ RegistryIdle
    /\ AmqpIdle
    /\ \E input \in ExtractInputs, overflow_checks \in BOOLEAN :
          parsed = [parser |-> "extract_string_from_data",
                    data |-> input.data, start |-> input.start,
                    overflow_checks |-> overflow_checks,
                    done |-> FALSE, outcome |-> ReturnedValue(None)]

ExtractNext == CallExtractString

SpecExtract == ExtractInit /\ [][ExtractNext]_vars

\* ------------------------------------------ claims about string extraction
\* The length prefix at position start is whole and the length it declares,
\* read from its bytes as a number below 2^32, ends within the payload.
WithinPayload(data, start) ==
    /\ start + 4 <= Len(data)
    /\ data[start + 4] = 0
    /\ data[start + 3] = 0
    /\ start + 4 + data[start + 1] + data[start + 2] * 256 <= Len(data)

\* C33: string extraction never reads outside the payload and its position
\* arithmetic never wraps: for every payload and every declared length from 0 to
\* 2^32 - 1, extract_string_from_data returns a string only when start + 4 +
\* length is at most the length of the payload, the position returned with it
\* being that sum, and returns no string otherwise; it never panics.
C33_ExtractionStaysInsidePayload ==
    (parsed.parser = "extract_string_from_data" /\ parsed.done)
        => /\ ~parsed.outcome.panic
           /\ parsed.outcome.value # None
                 => /\ WithinPayload(parsed.data, parsed.start)
                    /\ parsed.outcome.value[1][2]
                          = parsed.start + 4 + parsed.data[parsed.start + 1]
                            + parsed.data[parsed.start + 2] * 256
           /\ ~WithinPayload(parsed.data, parsed.start) => parsed.outcome.value = None

\* C33 witness: in a build without overflow checks the prefix after the
\* discriminator declared 2^32 - 1 bytes, five followed, and the call returned
\* no string.
C33_Witness ==
    /\ parsed.parser = "extract_string_from_data"
    /\ parsed.done
    /\ ~parsed.overflow_checks
    /\ parsed.start = 8
    /\ Len(parsed.data) = 17
    /\ SubSeq(parsed.data, 9, 12) = <<255, 255, 255, 255>>
    /\ parsed.outcome = ReturnedValue(None)

\* ----------------------------------------- claims about the dispatch progress
\* C34: under fair scheduling of the dispatch task, every transaction that is
\* pushed to the queue and not evicted by a later push is eventually removed by
\* the dispatch loop and passed to process_transaction, exactly once; an empty
\* queue makes the loop sleep and poll again, and the loop never exits.
C34_EveryQueuedTransactionIsDispatched ==
    /\ [](pc[Dispatcher] \notin {"idle", "returned"})
    /\ [](\A i, j \in 1..Len(disp.processed) :
             disp.processed[i] = disp.processed[j] => i = j)
    /\ [](Range(disp.processed) \cap Range(evicted) = {})
    /\ \A n \in 1..MaxArrivals :
          (pushed >= n) ~> (n \in Range(disp.processed) \/ n \in Range(evicted))
    /\ (pc[Dispatcher] = "sp_sleep") ~> (pc[Dispatcher] = "sp_pull")

\* C34 witness: three transactions were pushed onto a queue of capacity 2, the
\* first was evicted, the other two were processed, and the loop, having found
\* the queue empty, is in its sleep.
C34_Witness ==
    /\ max_size = 2
    /\ pushed = 3
    /\ evicted = <<1>>
    /\ disp.processed = <<2, 3>>
    /\ queue = <<>>
    /\ pc[Dispatcher] = "sp_sleep"

\* ------------------------------------------ claims about unnamed accounts
\* The accounts named in an include-list or a required-list of a configured
\* filter.
NamedAccounts ==
    UNION {(IF f.account_include = None THEN {} ELSE f.account_include[1])
           \cup (IF f.account_required = None THEN {} ELSE f.account_required[1]) :
              f \in config}

C36_LaunchOnlyFromOwnProgram ==
    Parsed =>
        /\ Returns("TokenLaunch")
              => /\ parsed.outcome.from \in 1..Len(tx.instructions)
                 /\ tx.instructions[parsed.outcome.from].program_id
                       = ProgramIdOf(parsed.parser)
                 /\ parsed.outcome.results[1].launch.launchpad = parsed.parser
                 /\ parsed.outcome.results[1].launch.token_address
                       = MintOf(parsed.parser, parsed.outcome.from)
        /\ (\A k \in 1..Len(tx.instructions) :
                tx.instructions[k].program_id # ProgramIdOf(parsed.parser))
              => Returns("NotRelevant")

\* C36 witness: the Pumpfun decoder has passed over a create instruction of its
\* own discriminator under the Meteora program id, whose token address resolves
\* to the first account, and has built its launch from the Pumpfun instruction
\* after it, whose token address is the second account.
C36_Witness ==
    /\ Parsed
    /\ parsed.parser = "Pumpfun"
    /\ Len(tx.instructions) = 2
    /\ tx.instructions[1] = [program_id |-> MeteoraProgramId,
                             accounts |-> <<0, 0, 0, 0>>, data |-> PumpfunCreate]
    /\ tx.instructions[2] = [program_id |-> PumpfunProgramId,
                             accounts |-> <<1, 1, 1, 1>>, data |-> PumpfunCreate]
    /\ Returns("TokenLaunch")
    /\ parsed.outcome.from = 2
    /\ parsed.outcome.results[1].launch.token_address = "MintB"

\* ============================================ account lookups of a decoder
\* ------------------------------------------------------------------ bounds
\* Largest number of account indices of the instruction.
MaxAccountIndices == 4

\* ------------------------------------------------------------------ inputs
\* Every list of at most MaxAccountIndices indices that point at the first
\* account, at the second, or past two accounts.
LookupAccountLists == SeqsUpTo({0, 1, 2}, MaxAccountIndices)

\* Transactions of one or two accounts with one create instruction of either
\* launchpad, without metadata.
LookupTransactions ==
    {QueuedTransaction(SubSeq(AccountKeys, 1, n),
                       <<[program_id |-> id, accounts |-> accounts, data |-> data]>>) :
        n \in 1..Len(AccountKeys),
        id \in {PumpfunProgramId, MeteoraProgramId},
        accounts \in LookupAccountLists,
        data \in {PumpfunCreate, MeteoraInitSplToken, MeteoraInitToken2022}}

\* A decoder is called with any create instruction and any account indices.
LookupInit == DecoderInitWith(LookupTransactions)
SpecLookup == LookupInit /\ [][DecoderNext]_vars

\* ------------------------------------------------- claims about the creator
\* Both lookups of the creator of the Meteora instruction k are in range.
CreatorResolves(k) ==
    /\ 2 < Len(tx.instructions[k].accounts)
    /\ tx.instructions[k].accounts[3] < Len(tx.accounts)

\* C37: in the Meteora decoder a creator that cannot be resolved (position 2
\* past the end of the instruction's account indices, or its value past the end
\* of the transaction's accounts) does not suppress the launch: when the token
\* address at position 3 resolves, a TokenLaunch is returned with that token
\* address and the creator absent.
C37_UnresolvedCreatorKeepsLaunch ==
    (/\ Parsed
     /\ parsed.parser = "Meteora"
     /\ IsCreate("Meteora", 1)
     /\ MintResolves("Meteora", 1)
     /\ ~CreatorResolves(1))
        => /\ Returns("TokenLaunch")
           /\ parsed.outcome.results[1].launch.token_address = MintOf("Meteora", 1)
           /\ parsed.outcome.results[1].launch.creator = None

\* C37 witness: the Meteora decoder has returned a launch for a transaction of
\* two accounts whose instruction names the second account as the token address
\* and points past the accounts for the creator.
C37_Witness ==
    /\ Parsed
    /\ parsed.parser = "Meteora"
    /\ Len(tx.accounts) = 2
    /\ IsCreate("Meteora", 1)
    /\ tx.instructions[1].accounts = <<0, 0, 2, 1>>
    /\ Returns("TokenLaunch")
    /\ parsed.outcome.results[1].launch.token_address = "MintB"
    /\ parsed.outcome.results[1].launch.creator = None

\* ------------------------------------------- claims about acknowledgments
\* Positions of the log at which a failed acknowledgment of delivery d was
\* reported.
AckFailedAt(d) == {i \in 1..Len(rmq.log) : rmq.log[i] = <<"ack_failed", d>>}

\* The loop has finished with item d of the stream.
DoneWith(d) ==
    /\ rmq.next > d
    /\ rmq.delivery = None \/ rmq.delivery[1].tag # d

\* C38: the consume loop makes exactly one acknowledgment attempt for every
\* delivery it receives successfully and never acknowledges a delivery twice; a
\* failed attempt is logged and not repeated; a receive error is not
\* acknowledged.
C38_OneAckAttemptPerDelivery ==
    \A d \in 1..MaxDeliveries :
        /\ Cardinality(AckedAt(d)) <= 1
        /\ AckedAt(d) # {} => IsDelivery(d)
        /\ (IsDelivery(d) /\ DoneWith(d)) => Cardinality(AckedAt(d)) = 1
        /\ Cardinality(AckFailedAt(d)) <= 1
        /\ \A i \in AckFailedAt(d) : i > 1 /\ rmq.log[i - 1] = <<"ack", d>>

\* C38 witness: the acknowledgment of the first launch failed and was logged;
\* the loop went on to the second launch and acknowledged it, without a second
\* attempt for the first.
C38_Witness ==
    rmq.log = << <<"handle", 1, "Ok">>, <<"ack", 1>>, <<"ack_failed", 1>>,
                 <<"handle", 2, "Ok">>, <<"ack", 2>> >>

====
